---- MODULE Spec2Model ----
(***************************************************************************)
(* Collaborative document editing: the OT engine (OTEngine.ts over         *)
(* quill-delta), the version-gated write path (DocumentService.ts), the    *)
(* socket handlers with the Redis mutex (collabHandler.ts) and the client  *)
(* buffering hook (useCollaboration.ts).                                   *)
(*                                                                         *)
(* A delta is a sequence of unit operations: "r" retains one unit, "d"     *)
(* deletes one unit, any other string is one inserted character.  The      *)
(* run-length form quill-delta keeps ({retain: n}, {delete: n},            *)
(* {insert: "abc"}) is this sequence with equal neighbours merged, so      *)
(* structural equality of normalised deltas is equality of unit sequences. *)
(***************************************************************************)
EXTENDS Integers, Sequences, FiniteSets, TLC

\* ------------------------------------------------------------------------
\* quill-delta: push, chop, compose, transform
\* ------------------------------------------------------------------------

IsInsert(op) == op # "r" /\ op # "d"

RECURSIVE TrailingDeletes(_)
\* length of the run of deletes that ends the delta
TrailingDeletes(s) ==
  IF s = <<>> \/ s[Len(s)] # "d" THEN 0
  ELSE 1 + TrailingDeletes(SubSeq(s, 1, Len(s) - 1))

\* Delta.push: an insert that follows a delete is placed before it
Push(s, op) ==
  IF IsInsert(op) /\ TrailingDeletes(s) > 0
  THEN LET k == Len(s) - TrailingDeletes(s)
       IN  SubSeq(s, 1, k) \o <<op>> \o SubSeq(s, k + 1, Len(s))
  ELSE Append(s, op)

RECURSIVE Chop(_)
\* Delta.chop: a trailing retain is dropped
Chop(s) ==
  IF s # <<>> /\ s[Len(s)] = "r" THEN Chop(SubSeq(s, 1, Len(s) - 1)) ELSE s

\* OpIterator: an exhausted iterator yields retains
PeekOp(s) == IF s = <<>> THEN "r" ELSE Head(s)
NextOps(s) == IF s = <<>> THEN s ELSE Tail(s)

RECURSIVE ComposeIter(_, _, _)
\* the loop of Delta.compose over the two iterators; the set with one
\* element binds the loop's state to values, so that each is computed once
ComposeIter(thisIter, otherIter, delta) ==
  LET Go(a, b, acc) ==
        IF a = <<>> /\ b = <<>> THEN Chop(acc)
        ELSE IF IsInsert(PeekOp(b))
             THEN ComposeIter(a, Tail(b), Push(acc, Head(b)))
        ELSE IF PeekOp(a) = "d"
             THEN ComposeIter(Tail(a), b, Push(acc, "d"))
        ELSE IF PeekOp(b) = "r"
             THEN ComposeIter(NextOps(a), NextOps(b), Push(acc, PeekOp(a)))
        ELSE IF PeekOp(a) = "r"
             THEN ComposeIter(NextOps(a), NextOps(b), Push(acc, "d"))
        ELSE ComposeIter(NextOps(a), NextOps(b), acc)
  IN  CHOOSE r \in {Go(t[1], t[2], t[3]) :
                      t \in {<<thisIter, otherIter, delta>>}} : TRUE

\* a.compose(b)
DeltaCompose(a, b) == ComposeIter(a, b, <<>>)

RECURSIVE TransformIter(_, _, _, _)
\* the loop of Delta.transform over the two iterators
TransformIter(thisIter, otherIter, priority, delta) ==
  LET Go(a, b, acc) ==
        IF a = <<>> /\ b = <<>> THEN Chop(acc)
        ELSE IF IsInsert(PeekOp(a)) /\ (priority \/ ~IsInsert(PeekOp(b)))
             THEN TransformIter(Tail(a), b, priority, Push(acc, "r"))
        ELSE IF IsInsert(PeekOp(b))
             THEN TransformIter(a, Tail(b), priority, Push(acc, Head(b)))
        ELSE IF PeekOp(a) = "d"
             THEN TransformIter(NextOps(a), NextOps(b), priority, acc)
        ELSE IF PeekOp(b) = "d"
             THEN TransformIter(NextOps(a), NextOps(b), priority, Push(acc, "d"))
        ELSE TransformIter(NextOps(a), NextOps(b), priority, Push(acc, "r"))
  IN  CHOOSE r \in {Go(t[1], t[2], t[3]) :
                      t \in {<<thisIter, otherIter, delta>>}} : TRUE

\* a.transform(b, priority): b rewritten to apply after a
DeltaTransform(a, b, priority) == TransformIter(a, b, priority, <<>>)

\* ------------------------------------------------------------------------
\* OTEngine
\* ------------------------------------------------------------------------

\* the transform with priority given to the committed op's side
transformClientLast(clientOp, serverOp) == DeltaTransform(serverOp, clientOp, TRUE)

\* OTEngine.transform(clientOp, serverOp)
transform(clientOp, serverOp) == DeltaTransform(serverOp, clientOp, FALSE)

\* OTEngine.compose(base, delta)
compose(base, delta) == DeltaCompose(base, delta)

RECURSIVE transformMultiple(_, _)
\* OTEngine.transformMultiple(incomingOp, committedOps): a left fold
transformMultiple(incomingOp, committedOps) ==
  LET Go(op, rest) ==
        IF rest = <<>> THEN op
        ELSE transformMultiple(transform(op, Head(rest)), Tail(rest))
  IN  CHOOSE r \in {Go(t[1], t[2]) : t \in {<<incomingOp, committedOps>>}} : TRUE

\* ------------------------------------------------------------------------
\* Bounds and program constants
\* ------------------------------------------------------------------------

\* DocumentService.ts: const MAX_RETRIES = 5
MAX_RETRIES == 5

\* socket connections, one per editing client
Conns == {1, 2}

\* document ids a message can name; only TheDoc is in the documents collection
DocIds == {"doc1", "doc2"}
TheDoc == "doc1"

\* send-op requests taken in by the server in SpecServer
MaxReq == 2

\* largest baseVersion a send-op request carries in SpecServer
MaxBase == 2

\* deltas a send-op request carries in SpecServer
ReqDeltas == {<<"A">>, <<"r", "B">>, <<"d">>}

\* local edits made by all clients together in Spec
MaxEdits == 3

\* send-op messages in a behaviour of the contention specification
MaxContend == 6

\* send-op messages in a behaviour of the lock specification
MaxLockReq == 2

\* join-doc and send-op messages in a behaviour of the join specification
MaxJoinReq == 3
MaxRoomReq == 4

\* length of the document text and of a delta in the diamond specification
MaxDocLen == 2
MaxDeltaLen == 3

\* optional values: <<>> is null, <<x>> is x
None == <<>>
Some(x) == <<x>>

\* fromVersion of a join-doc message, or baseVersion of a send-op message,
\* that carries none (or no number): it equals and compares with nothing
Undefined == -1

\* a baseVersion below zero
NegativeBase == -2

\* ------------------------------------------------------------------------
\* State
\* ------------------------------------------------------------------------

VARIABLES
  doc,           \* documents collection: content and version of document TheDoc
  opLog,         \* operations collection: set of log entries
  lock,          \* per docId: value stored under lock:doc:{docId}; None when absent
  rooms,         \* per docId: connections subscribed to the room
  handlers,      \* running socket handlers (send-op, join-doc) by invocation id
  s2c,           \* per connection: messages emitted by the server, not yet handled
  docId,         \* per client: the docId the hook was mounted with
  view,          \* per client: contents of the Quill editor
  knownVersion,  \* per client: knownVersion ref
  inFlightOp,    \* per client: inFlightOp ref
  pendingOp,     \* per client: pendingOp ref
  nInputs        \* number of inputs so far: local edits, or raw send-op messages

vars == <<doc, opLog, lock, rooms, handlers, s2c,
          docId, view, knownVersion, inFlightOp, pendingOp, nInputs>>

clientVars == <<docId, view, knownVersion, inFlightOp, pendingOp, nInputs>>

\* a handler invocation as it starts
NewHandler(kind, conn, id, delta, base) ==
  [kind |-> kind, conn |-> conn, docId |-> id,
   pc |-> IF kind = "send" THEN "acquire" ELSE "join",
   clientDelta |-> delta, clientVersion |-> base,
   lockOwner |-> None, lockAcquired |-> FALSE, attempt |-> 0,
   currentVersion |-> 0, currentContent |-> <<>>,
   transformedDelta |-> <<>>, newVersion |-> 0,
   found |-> FALSE, missedOps |-> <<>>]

Msg(type, delta, version, ops) ==
  [type |-> type, delta |-> delta, version |-> version, ops |-> ops]

H == DOMAIN handlers

\* the smallest unused invocation id
FreshId(hs) ==
  CHOOSE i \in 1..(Cardinality(DOMAIN hs) + 1) : i \notin DOMAIN hs

\* the handlers with one more invocation; its lockOwner,
\* `${socket.id}:${Date.now()}`, differs from that of every running handler
Spawn(hs, rec) ==
  LET id == FreshId(hs)
  IN  [k \in DOMAIN hs \cup {id} |->
         IF k = id THEN [rec EXCEPT !.lockOwner = <<rec.conn, id>>] ELSE hs[k]]

\* the handlers with one more invocation that starts on the same socket in
\* the same millisecond as the running handler k: both have one lockOwner
SpawnSameMs(hs, rec, k) ==
  LET id == FreshId(hs)
  IN  [j \in DOMAIN hs \cup {id} |->
         IF j = id THEN [rec EXCEPT !.lockOwner = hs[k].lockOwner] ELSE hs[j]]

\* the handlers without a finished invocation
Finish(hs, h) == [k \in DOMAIN hs \ {h} |-> hs[k]]

\* DocumentModel.findById
findById(id) == IF id = TheDoc THEN Some(doc) ELSE None

RECURSIVE SortByVersion(_)
\* .sort({version: 1})
SortByVersion(entries) ==
  LET Go(S) ==
        IF S = {} THEN <<>>
        ELSE CHOOSE r \in
               {<<m>> \o SortByVersion(S \ {m}) :
                  m \in {CHOOSE e \in S : \A f \in S : e.version <= f.version}} :
               TRUE
  IN  CHOOSE r \in {Go(T) : T \in {entries}} : TRUE

\* DocumentService.getOperationsSince
getOperationsSince(id, fromVersion) ==
  SortByVersion({e \in opLog : e.docId = id /\ e.version > fromVersion})

Deltas(ops) == [i \in DOMAIN ops |-> ops[i].delta]

\* ------------------------------------------------------------------------
\* send-op handler (collabHandler.ts) around DocumentService.applyOperation
\* ------------------------------------------------------------------------

\* acquireLock with a plain SET: the key is overwritten when it is taken
AcquireLockNoNX(h) ==
  /\ handlers[h].pc = "acquire"
  /\ lock' = [lock EXCEPT ![handlers[h].docId] = handlers[h].lockOwner]
  /\ handlers' = [handlers EXCEPT ![h].lockAcquired = TRUE, ![h].pc = "load"]
  /\ UNCHANGED <<doc, opLog, rooms, s2c, clientVars>>

\* acquireLock: SET key owner NX EX ttl answers OK
AcquireLock(h) ==
  /\ handlers[h].pc = "acquire"
  /\ lock[handlers[h].docId] = None
  /\ lock' = [lock EXCEPT ![handlers[h].docId] = handlers[h].lockOwner]
  /\ handlers' = [handlers EXCEPT ![h].lockAcquired = TRUE, ![h].pc = "load"]
  /\ UNCHANGED <<doc, opLog, rooms, s2c, clientVars>>

\* acquireLock: the key stayed taken until the deadline; returns false
AcquireTimeout(h) ==
  /\ handlers[h].pc = "acquire"
  /\ lock[handlers[h].docId] # None
  /\ handlers' = [handlers EXCEPT ![h].pc = "load"]
  /\ UNCHANGED <<doc, opLog, lock, rooms, s2c, clientVars>>

\* acquireLock awaited outside the try block: the rejection ends the handler
AcquireFailUncaught(h) ==
  /\ handlers[h].pc = "acquire"
  /\ handlers' = Finish(handlers, h)
  /\ UNCHANGED <<doc, opLog, lock, rooms, s2c, clientVars>>

\* acquireLock: redis.set rejects (the lock service is unavailable); the
\* rejection propagates out of acquireLock into the handler's catch
AcquireFail(h) ==
  /\ handlers[h].pc = "acquire"
  /\ handlers' = [handlers EXCEPT ![h].pc = "error"]
  /\ UNCHANGED <<doc, opLog, lock, rooms, s2c, clientVars>>

\* the key's TTL (LOCK_TTL_SECONDS) runs out while its owner is still working
LockExpire(id) ==
  /\ lock[id] # None
  /\ lock' = [lock EXCEPT ![id] = None]
  /\ UNCHANGED <<doc, opLog, rooms, handlers, s2c, clientVars>>

\* applyOperation steps 1-2: load the document; not behind: no transform
\* (a missing clientVersion compares false with every version)
Load(h) ==
  /\ handlers[h].pc = "load"
  /\ IF findById(handlers[h].docId) = None
     THEN handlers' = [handlers EXCEPT ![h].attempt = @ + 1, ![h].pc = "error"]
     ELSE handlers' = [handlers EXCEPT
            ![h].attempt = @ + 1,
            ![h].currentVersion = doc.version,
            ![h].currentContent = doc.content,
            ![h].transformedDelta = handlers[h].clientDelta,
            ![h].pc = IF /\ handlers[h].clientVersion # Undefined
                         /\ handlers[h].clientVersion < doc.version
                      THEN "fetch" ELSE "commit"]
  /\ UNCHANGED <<doc, opLog, lock, rooms, s2c, clientVars>>

\* applyOperation step 2: fetch the missed ops and transform through them
Fetch(h) ==
  /\ handlers[h].pc = "fetch"
  /\ LET missedOps == getOperationsSince(handlers[h].docId,
                                         handlers[h].clientVersion)
     IN  handlers' = [handlers EXCEPT
           ![h].missedOps = missedOps,
           ![h].transformedDelta =
              transformMultiple(handlers[h].clientDelta, Deltas(missedOps)),
           ![h].pc = "commit"]
  /\ UNCHANGED <<doc, opLog, lock, rooms, s2c, clientVars>>

\* the update without the version filter: it always matches
findOneAndUpdateNoGate(d, currentVersion, newContent, newVersion) ==
  [updated |-> TRUE, doc |-> [content |-> newContent, version |-> newVersion]]

\* the update that sets the content but leaves the version as it is
findOneAndUpdateNoInc(d, currentVersion, newContent, newVersion) ==
  IF d.version = currentVersion
  THEN [updated |-> TRUE, doc |-> [content |-> newContent, version |-> d.version]]
  ELSE [updated |-> FALSE, doc |-> d]

\* findOneAndUpdate({_id, version: currentVersion}, {$set: {content, version}}):
\* the updated document, or null when the filter matched nothing
findOneAndUpdate(d, currentVersion, newContent, newVersion) ==
  IF d.version = currentVersion
  THEN [updated |-> TRUE, doc |-> [content |-> newContent, version |-> newVersion]]
  ELSE [updated |-> FALSE, doc |-> d]

\* the loop without its bound: a missed gate always starts a new attempt
CommitRetryAlways(h) ==
  /\ handlers[h].pc = "commit"
  /\ LET hd == handlers[h]
         newContent == compose(hd.currentContent, hd.transformedDelta)
         newVersion == hd.currentVersion + 1
         res == findOneAndUpdate(doc, hd.currentVersion, newContent, newVersion)
     IN  /\ doc' = res.doc
         /\ handlers' = [handlers EXCEPT
               ![h].newVersion = IF res.updated THEN newVersion ELSE @,
               ![h].pc = IF res.updated THEN "log" ELSE "load"]
  /\ UNCHANGED <<opLog, lock, rooms, s2c, clientVars>>

\* applyOperation steps 3-4: compose and attempt the version-gated update
Commit(h) ==
  /\ handlers[h].pc = "commit"
  /\ LET hd == handlers[h]
         newContent == compose(hd.currentContent, hd.transformedDelta)
         newVersion == hd.currentVersion + 1
         res == findOneAndUpdate(doc, hd.currentVersion, newContent, newVersion)
     IN  /\ doc' = res.doc
         /\ handlers' = [handlers EXCEPT
               ![h].newVersion = IF res.updated THEN newVersion ELSE @,
               ![h].pc = IF res.updated THEN "log"
                         ELSE IF hd.attempt < MAX_RETRIES THEN "load"
                         ELSE "error"]
  /\ UNCHANGED <<opLog, lock, rooms, s2c, clientVars>>

\* the insert without the unique index, tagging the entry with the version
\* before the commit
createLoose(log, entry) ==
  log \cup {[entry EXCEPT !.version = entry.version - 1]}

\* OperationModel.create under the unique index on (docId, version):
\* the collection after the insert, unchanged when the insert is rejected
create(log, entry) ==
  IF \E e \in log : e.docId = entry.docId /\ e.version = entry.version
  THEN log
  ELSE log \cup {entry}

\* applyOperation step 5 when the collection already holds an entry with
\* this (docId, version), written by an earlier attempt of the same insert:
\* OperationModel.create rejects with the duplicate-key error, which leaves
\* applyOperation and reaches the handler's catch
AppendLogDuplicate(h) ==
  /\ handlers[h].pc = "log"
  /\ LET hd == handlers[h]
         entry == [docId |-> hd.docId, version |-> hd.newVersion,
                   delta |-> hd.transformedDelta, socketId |-> hd.conn]
     IN  /\ opLog' = create(opLog \cup {entry}, entry)
         /\ handlers' = [handlers EXCEPT ![h].pc = "error"]
  /\ UNCHANGED <<doc, lock, rooms, s2c, clientVars>>

\* the append that stores the delta as the client submitted it
AppendLogRaw(h) ==
  /\ handlers[h].pc = "log"
  /\ LET hd == handlers[h]
         entry == [docId |-> hd.docId, version |-> hd.newVersion,
                   delta |-> hd.clientDelta, socketId |-> hd.conn]
     IN  /\ opLog' = create(opLog, entry)
         /\ handlers' = [handlers EXCEPT
               ![h].pc = IF entry \in create(opLog, entry) /\ entry \notin opLog
                         THEN "emit" ELSE "error"]
  /\ UNCHANGED <<doc, lock, rooms, s2c, clientVars>>

\* applyOperation step 5: append the log entry; a rejected insert throws
AppendLog(h) ==
  /\ handlers[h].pc = "log"
  /\ LET hd == handlers[h]
         entry == [docId |-> hd.docId, version |-> hd.newVersion,
                   delta |-> hd.transformedDelta, socketId |-> hd.conn]
     IN  /\ opLog' = create(opLog, entry)
         /\ handlers' = [handlers EXCEPT
               ![h].pc = IF entry \in create(opLog, entry) /\ entry \notin opLog
                         THEN "emit" ELSE "error"]
  /\ UNCHANGED <<doc, lock, rooms, s2c, clientVars>>

\* io.to(docId).emit('receive-op'): the broadcast reaches the sender as well
broadcastToAll(q, room, conn, delta, version) ==
  [c \in Conns |->
     LET q1 == IF c \in room
               THEN Append(q[c], Msg("receive-op", delta, version, <<>>))
               ELSE q[c]
     IN  IF c = conn THEN Append(q1, Msg("op-ack", <<>>, version, <<>>)) ELSE q1]

\* socket.to(docId).emit('receive-op') then socket.emit('op-ack'): the queues
\* after the broadcast to the room without the sender and the ack to the sender
broadcastAndAck(q, room, conn, delta, version) ==
  [c \in Conns |->
     IF c = conn THEN Append(q[c], Msg("op-ack", <<>>, version, <<>>))
     ELSE IF c \in room THEN Append(q[c], Msg("receive-op", delta, version, <<>>))
     ELSE q[c]]

\* send-op steps 3-4
Emit(h) ==
  /\ handlers[h].pc = "emit"
  /\ s2c' = broadcastAndAck(s2c, rooms[handlers[h].docId], handlers[h].conn,
                            handlers[h].transformedDelta, handlers[h].newVersion)
  /\ handlers' = [handlers EXCEPT ![h].pc = "release"]
  /\ UNCHANGED <<doc, opLog, lock, rooms, clientVars>>

\* the catch emitting with io.emit: op-error reaches every connection
EmitErrorToAll(h) ==
  /\ handlers[h].pc = "error"
  /\ s2c' = [c \in Conns |->
        Append(s2c[c], Msg("op-error", <<>>, handlers[h].clientVersion, <<>>))]
  /\ handlers' = [handlers EXCEPT ![h].pc = "release"]
  /\ UNCHANGED <<doc, opLog, lock, rooms, clientVars>>

\* send-op catch: op-error with the request's baseVersion to the sender
EmitError(h) ==
  /\ handlers[h].pc = "error"
  /\ s2c' = [s2c EXCEPT ![handlers[h].conn] =
        Append(@, Msg("op-error", <<>>, handlers[h].clientVersion, <<>>))]
  /\ handlers' = [handlers EXCEPT ![h].pc = "release"]
  /\ UNCHANGED <<doc, opLog, lock, rooms, clientVars>>

\* the release placed at the end of the try block: skipped after a throw
ReleaseOnSuccess(h) ==
  /\ handlers[h].pc = "release"
  /\ lock' = IF handlers[h].lockAcquired
                /\ handlers[h].newVersion > 0
                /\ lock[handlers[h].docId] = handlers[h].lockOwner
             THEN [lock EXCEPT ![handlers[h].docId] = None]
             ELSE lock
  /\ handlers' = Finish(handlers, h)
  /\ UNCHANGED <<doc, opLog, rooms, s2c, clientVars>>

\* releaseLock with a plain DEL
ReleaseUnfenced(h) ==
  /\ handlers[h].pc = "release"
  /\ lock' = IF handlers[h].lockAcquired
             THEN [lock EXCEPT ![handlers[h].docId] = None]
             ELSE lock
  /\ handlers' = Finish(handlers, h)
  /\ UNCHANGED <<doc, opLog, rooms, s2c, clientVars>>

\* send-op finally: releaseLock (RELEASE_LOCK_LUA) when the lock was acquired
Release(h) ==
  /\ handlers[h].pc = "release"
  /\ lock' = IF handlers[h].lockAcquired
                /\ lock[handlers[h].docId] = handlers[h].lockOwner
             THEN [lock EXCEPT ![handlers[h].docId] = None]
             ELSE lock
  /\ handlers' = Finish(handlers, h)
  /\ UNCHANGED <<doc, opLog, rooms, s2c, clientVars>>

\* the finally block when redis.eval rejects inside releaseLock: the key is
\* left to its TTL and the handler ends after its reply has been emitted
ReleaseFail(h) ==
  /\ handlers[h].pc = "release"
  /\ handlers[h].lockAcquired
  /\ handlers' = Finish(handlers, h)
  /\ UNCHANGED <<doc, opLog, lock, rooms, s2c, clientVars>>

\* ------------------------------------------------------------------------
\* join-doc handler
\* ------------------------------------------------------------------------

\* socket.join(docId)
JoinRoom(h) ==
  /\ handlers[h].pc = "join"
  /\ rooms' = [rooms EXCEPT ![handlers[h].docId] = @ \cup {handlers[h].conn}]
  /\ handlers' = [handlers EXCEPT ![h].pc = "jload"]
  /\ UNCHANGED <<doc, opLog, lock, s2c, clientVars>>

\* DocumentService.getDocument answers
JoinLoad(h) ==
  /\ handlers[h].pc = "jload"
  /\ handlers' = [handlers EXCEPT
        ![h].found = findById(handlers[h].docId) # None,
        ![h].currentVersion = IF findById(handlers[h].docId) # None
                              THEN doc.version ELSE 0,
        ![h].currentContent = IF findById(handlers[h].docId) # None
                              THEN doc.content ELSE <<>>,
        ![h].pc = "jreply"]
  /\ UNCHANGED <<doc, opLog, lock, rooms, s2c, clientVars>>

\* the branch without the test for undefined: a join-doc without
\* fromVersion is answered like one that is behind
JoinReplyNoUndefined(h) ==
  /\ handlers[h].pc = "jreply"
  /\ IF ~handlers[h].found
     THEN /\ handlers' = Finish(handlers, h)
          /\ s2c' = [s2c EXCEPT ![handlers[h].conn] =
                Append(@, Msg("error", <<>>, 0, <<>>))]
     ELSE IF handlers[h].clientVersion < handlers[h].currentVersion
     THEN /\ handlers' = [handlers EXCEPT ![h].pc = "jfetch"]
          /\ UNCHANGED s2c
     ELSE /\ handlers' = Finish(handlers, h)
          /\ s2c' = [s2c EXCEPT ![handlers[h].conn] =
                Append(@, Msg("doc-snapshot", handlers[h].currentContent,
                              handlers[h].currentVersion, <<>>))]
  /\ UNCHANGED <<doc, opLog, lock, rooms, clientVars>>

\* the handler resumes with the document: error when missing, doc-snapshot
\* unless fromVersion < doc.version
JoinReply(h) ==
  /\ handlers[h].pc = "jreply"
  /\ IF ~handlers[h].found
     THEN /\ handlers' = Finish(handlers, h)
          /\ s2c' = [s2c EXCEPT ![handlers[h].conn] =
                Append(@, Msg("error", <<>>, 0, <<>>))]
     ELSE IF /\ handlers[h].clientVersion # Undefined
             /\ handlers[h].clientVersion < handlers[h].currentVersion
     THEN /\ handlers' = [handlers EXCEPT ![h].pc = "jfetch"]
          /\ UNCHANGED s2c
     ELSE /\ handlers' = Finish(handlers, h)
          /\ s2c' = [s2c EXCEPT ![handlers[h].conn] =
                Append(@, Msg("doc-snapshot", handlers[h].currentContent,
                              handlers[h].currentVersion, <<>>))]
  /\ UNCHANGED <<doc, opLog, lock, rooms, clientVars>>

\* getOperationsSince(docId, fromVersion) answers
JoinFetch(h) ==
  /\ handlers[h].pc = "jfetch"
  /\ handlers' = [handlers EXCEPT
        ![h].missedOps = getOperationsSince(handlers[h].docId,
                                            handlers[h].clientVersion),
        ![h].pc = "jcatchup"]
  /\ UNCHANGED <<doc, opLog, lock, rooms, s2c, clientVars>>

\* the handler resumes with the missed ops: catchup-ops
JoinCatchup(h) ==
  /\ handlers[h].pc = "jcatchup"
  /\ s2c' = [s2c EXCEPT ![handlers[h].conn] =
        Append(@, Msg("catchup-ops", <<>>, handlers[h].currentVersion,
                      handlers[h].missedOps))]
  /\ handlers' = Finish(handlers, h)
  /\ UNCHANGED <<doc, opLog, lock, rooms, clientVars>>

\* ------------------------------------------------------------------------
\* Client: Quill editor and the useCollaboration hook
\* ------------------------------------------------------------------------

\* quill.updateContents(delta): the editor holds a document (inserts only);
\* a retain or delete that runs past its end has nothing to act on
updateContents(v, delta) == SelectSeq(DeltaCompose(v, delta), IsInsert)

\* quill.setContents(content)
setContents(content) == SelectSeq(content, IsInsert)

Retains(n) == [i \in 1..n |-> "r"]

\* the character client c types
CharOf(c) == IF c = 1 THEN "X" ELSE "Y"

\* user edits of the editor contents v: one insert or one delete at any place
UserEdits(c, v) ==
  {Retains(p) \o <<CharOf(c)>> : p \in 0..Len(v)} \cup
  {Retains(p - 1) \o <<"d">> : p \in 1..Len(v)}

\* flushInflight: socket.emit('send-op', {docId, delta, baseVersion})
flushInflight(hs, c, delta, version) ==
  Spawn(hs, NewHandler("send", c, docId[c], delta, version))

\* onLocalChange without the inFlightOp test: every edit is sent at once
LocalEditNoBuffer(c, d) ==
  /\ nInputs < MaxEdits
  /\ nInputs' = nInputs + 1
  /\ view' = [view EXCEPT ![c] = updateContents(@, d)]
  /\ inFlightOp' = [inFlightOp EXCEPT ![c] = Some(d)]
  /\ handlers' = flushInflight(handlers, c, d, knownVersion[c])
  /\ UNCHANGED <<pendingOp, doc, opLog, lock, rooms, s2c, docId, knownVersion>>

\* the user changes the editor; Quill's text-change calls onLocalChange
LocalEdit(c, d) ==
  /\ nInputs < MaxEdits
  /\ nInputs' = nInputs + 1
  /\ view' = [view EXCEPT ![c] = updateContents(@, d)]
  /\ IF inFlightOp[c] = None
     THEN /\ inFlightOp' = [inFlightOp EXCEPT ![c] = Some(d)]
          /\ handlers' = flushInflight(handlers, c, d, knownVersion[c])
          /\ UNCHANGED pendingOp
     ELSE /\ pendingOp' = [pendingOp EXCEPT ![c] =
                IF @ # None THEN Some(DeltaCompose(@[1], d)) ELSE Some(d)]
          /\ UNCHANGED <<inFlightOp, handlers>>
  /\ UNCHANGED <<doc, opLog, lock, rooms, s2c, docId, knownVersion>>

NextMsg(c, type) == s2c[c] # <<>> /\ Head(s2c[c]).type = type
Pop(c) == [s2c EXCEPT ![c] = Tail(@)]

\* handleAck that sends the promoted buffer before knownVersion is updated
RecvAckStaleBase(c) ==
  /\ NextMsg(c, "op-ack")
  /\ s2c' = Pop(c)
  /\ knownVersion' = [knownVersion EXCEPT ![c] = Head(s2c[c]).version]
  /\ IF pendingOp[c] # None
     THEN /\ inFlightOp' = [inFlightOp EXCEPT ![c] = pendingOp[c]]
          /\ pendingOp' = [pendingOp EXCEPT ![c] = None]
          /\ handlers' = flushInflight(handlers, c, pendingOp[c][1],
                                       knownVersion[c])
     ELSE /\ inFlightOp' = [inFlightOp EXCEPT ![c] = None]
          /\ UNCHANGED <<pendingOp, handlers>>
  /\ UNCHANGED <<doc, opLog, lock, rooms, docId, view, nInputs>>

\* handleAck that clears inFlightOp and leaves the buffer where it is
RecvAckNoPromote(c) ==
  /\ NextMsg(c, "op-ack")
  /\ s2c' = Pop(c)
  /\ knownVersion' = [knownVersion EXCEPT ![c] = Head(s2c[c]).version]
  /\ inFlightOp' = [inFlightOp EXCEPT ![c] = None]
  /\ UNCHANGED <<doc, opLog, lock, rooms, handlers, docId, view, pendingOp,
                 nInputs>>

\* handleAck
RecvAck(c) ==
  /\ NextMsg(c, "op-ack")
  /\ s2c' = Pop(c)
  /\ knownVersion' = [knownVersion EXCEPT ![c] = Head(s2c[c]).version]
  /\ IF pendingOp[c] # None
     THEN /\ inFlightOp' = [inFlightOp EXCEPT ![c] = pendingOp[c]]
          /\ pendingOp' = [pendingOp EXCEPT ![c] = None]
          /\ handlers' = flushInflight(handlers, c, pendingOp[c][1],
                                       Head(s2c[c]).version)
     ELSE /\ inFlightOp' = [inFlightOp EXCEPT ![c] = None]
          /\ UNCHANGED <<pendingOp, handlers>>
  /\ UNCHANGED <<doc, opLog, lock, rooms, docId, view, nInputs>>

\* handleRemoteOp: the remote delta as it is applied to the editor
remoteOverLocal(inFlight, pending, rawDelta) ==
  IF inFlight = None THEN rawDelta
  ELSE LET localAhead == IF pending # None
                         THEN DeltaCompose(inFlight[1], pending[1])
                         ELSE inFlight[1]
       IN  DeltaTransform(localAhead, rawDelta, TRUE)

\* handleRemoteOp: a local op rewritten against the remote delta
localOverRemote(remoteDelta, local) ==
  IF local = None THEN None
  ELSE Some(DeltaTransform(remoteDelta, local[1], FALSE))

\* handleRemoteOp
RecvRemoteOp(c) ==
  /\ NextMsg(c, "receive-op")
  /\ s2c' = Pop(c)
  /\ LET remoteDelta == remoteOverLocal(inFlightOp[c], pendingOp[c],
                                        Head(s2c[c]).delta)
     IN  /\ view' = [view EXCEPT ![c] = updateContents(@, remoteDelta)]
         /\ IF inFlightOp[c] # None
            THEN /\ inFlightOp' = [inFlightOp EXCEPT ![c] =
                                     localOverRemote(remoteDelta, @)]
                 /\ pendingOp' = [pendingOp EXCEPT ![c] =
                                     localOverRemote(remoteDelta, @)]
            ELSE UNCHANGED <<inFlightOp, pendingOp>>
  /\ knownVersion' = [knownVersion EXCEPT ![c] = Head(s2c[c]).version]
  /\ UNCHANGED <<doc, opLog, lock, rooms, handlers, docId, nInputs>>

RECURSIVE replay(_, _)
\* handleCatchup: ops.forEach(quill.updateContents)
replay(v, ops) ==
  IF ops = <<>> THEN v
  ELSE replay(updateContents(v, Head(ops).delta), Tail(ops))

\* handleCatchup
RecvCatchup(c) ==
  /\ NextMsg(c, "catchup-ops")
  /\ s2c' = Pop(c)
  /\ view' = [view EXCEPT ![c] = replay(@, Head(s2c[c]).ops)]
  /\ knownVersion' = [knownVersion EXCEPT ![c] = Head(s2c[c]).version]
  /\ UNCHANGED <<doc, opLog, lock, rooms, handlers, docId,
                 inFlightOp, pendingOp, nInputs>>

\* handleSnapshot
RecvSnapshot(c) ==
  /\ NextMsg(c, "doc-snapshot")
  /\ s2c' = Pop(c)
  /\ view' = [view EXCEPT ![c] = setContents(Head(s2c[c]).delta)]
  /\ knownVersion' = [knownVersion EXCEPT ![c] = Head(s2c[c]).version]
  /\ UNCHANGED <<doc, opLog, lock, rooms, handlers, docId,
                 inFlightOp, pendingOp, nInputs>>

\* handleOpError that drops the op in flight but keeps the buffered one
RecvOpErrorKeepPending(c) ==
  /\ NextMsg(c, "op-error")
  /\ s2c' = Pop(c)
  /\ handlers' = Spawn(handlers,
        NewHandler("join", c, docId[c], <<>>, knownVersion[c]))
  /\ inFlightOp' = [inFlightOp EXCEPT ![c] = None]
  /\ UNCHANGED <<doc, opLog, lock, rooms, docId, view, knownVersion,
                 pendingOp, nInputs>>

\* handleOpError: re-join, then clear the local op queue
RecvOpError(c) ==
  /\ NextMsg(c, "op-error")
  /\ s2c' = Pop(c)
  /\ handlers' = Spawn(handlers,
        NewHandler("join", c, docId[c], <<>>, knownVersion[c]))
  /\ inFlightOp' = [inFlightOp EXCEPT ![c] = None]
  /\ pendingOp' = [pendingOp EXCEPT ![c] = None]
  /\ UNCHANGED <<doc, opLog, lock, rooms, docId, view, knownVersion, nInputs>>

\* 'error' has no listener in the hook
RecvError(c) ==
  /\ NextMsg(c, "error")
  /\ s2c' = Pop(c)
  /\ UNCHANGED <<doc, opLog, lock, rooms, handlers, clientVars>>

\* ------------------------------------------------------------------------
\* Specifications
\* ------------------------------------------------------------------------

InitDb ==
  /\ doc = [content |-> <<>>, version |-> 0]
  /\ opLog = {}
  /\ lock = [id \in DocIds |-> None]
  /\ s2c = [c \in Conns |-> <<>>]

InitRefs ==
  /\ view = [c \in Conns |-> <<>>]
  /\ knownVersion = [c \in Conns |-> 0]
  /\ inFlightOp = [c \in Conns |-> None]
  /\ pendingOp = [c \in Conns |-> None]
  /\ nInputs = 0

\* every client has mounted the hook on the document and its join-doc has
\* been answered with the doc-snapshot of the new document
Init ==
  /\ InitDb
  /\ InitRefs
  /\ docId = [c \in Conns |-> TheDoc]
  /\ rooms = [id \in DocIds |-> {c \in Conns : docId[c] = id}]
  /\ handlers = <<>>

\* Editing an existing document: with at most MaxEdits < MAX_RETRIES ops no
\* applyOperation call fails, so no op-error, and no join-doc after it, occurs
Next ==
  \/ \E c \in Conns : \E d \in UserEdits(c, view[c]) : LocalEdit(c, d)
  \/ \E c \in Conns : RecvAck(c)
  \/ \E c \in Conns : RecvRemoteOp(c)
  \/ \E h \in H : AcquireLock(h)
  \/ \E h \in H : AcquireTimeout(h)
  \/ \E h \in H : Load(h)
  \/ \E h \in H : Fetch(h)
  \/ \E h \in H : Commit(h)
  \/ \E h \in H : AppendLog(h)
  \/ \E h \in H : Emit(h)
  \/ \E h \in H : Release(h)
  \/ \E id \in DocIds : LockExpire(id)

Spec == Init /\ [][Next]_vars

\* The server alone, driven by arbitrary send-op messages ------------------

RECURSIVE FoldLog(_, _)
\* the deltas composed in order onto acc
FoldLog(ds, acc) ==
  IF ds = <<>> THEN acc ELSE FoldLog(Tail(ds), compose(acc, Head(ds)))

LogOf(id) == {e \in opLog : e.docId = id}

\* the document's content at version b according to the log
ContentAt(b) ==
  FoldLog(Deltas(SortByVersion({e \in LogOf(TheDoc) : e.version <= b})), <<>>)

\* number of units a delta expects in the document it applies to
BaseLen(d) == Cardinality({i \in DOMAIN d : ~IsInsert(d[i])})

\* a send-op message arrives on connection c; a delta based on a version the
\* document has reached fits the content at that version
SendOpRequest(c, id, d, b) ==
  /\ nInputs < MaxReq
  /\ nInputs' = nInputs + 1
  /\ (id = TheDoc /\ b <= doc.version) => BaseLen(d) <= Len(ContentAt(b))
  /\ handlers' = Spawn(handlers, NewHandler("send", c, id, d, b))
  /\ UNCHANGED <<doc, opLog, lock, rooms, s2c,
                 docId, view, knownVersion, inFlightOp, pendingOp>>

\* the document after one committed op from connection 1
SeededDb ==
  /\ doc = [content |-> <<"A">>, version |-> 1]
  /\ opLog = {[docId |-> TheDoc, version |-> 1, delta |-> <<"A">>,
               socketId |-> 1]}
  /\ lock = [id \in DocIds |-> None]
  /\ s2c = [c \in Conns |-> <<>>]

\* the document as created or after one op; connection 1 has joined its room,
\* connection 2 may have
InitServer ==
  /\ InitDb \/ SeededDb
  /\ InitRefs
  /\ docId = [c \in Conns |-> TheDoc]
  /\ \E room \in {{1}, Conns} :
        rooms = [id \in DocIds |-> IF id = TheDoc THEN room ELSE {}]
  /\ handlers = <<>>

NextServer ==
  \/ \E c \in Conns, id \in DocIds, d \in ReqDeltas, b \in 0..MaxBase :
        SendOpRequest(c, id, d, b)
  \/ \E h \in H : AcquireLock(h)
  \/ \E h \in H : AcquireTimeout(h)
  \/ \E h \in H : Load(h)
  \/ \E h \in H : Fetch(h)
  \/ \E h \in H : Commit(h)
  \/ \E h \in H : AppendLog(h)
  \/ \E h \in H : Emit(h)
  \/ \E h \in H : EmitError(h)
  \/ \E h \in H : Release(h)
  \/ \E id \in DocIds : LockExpire(id)

SpecServer == InitServer /\ [][NextServer]_vars

\* Contention on one document ----------------------------------------------

\* connection c, with no send-op of its own being handled, sends an insert
\* at the head of the document based on the version it is at; connection 1
\* sends one op, connection 2 sends one after another
ContendRequest(c) ==
  /\ nInputs < MaxContend
  /\ \A h \in H : handlers[h].conn # c
  /\ c = 1 => \A i \in DOMAIN s2c[c] : s2c[c][i].type = "receive-op"
  /\ nInputs' = nInputs + 1
  /\ handlers' = Spawn(handlers,
                       NewHandler("send", c, TheDoc, <<CharOf(c)>>, doc.version))
  /\ UNCHANGED <<doc, opLog, lock, rooms, s2c,
                 docId, view, knownVersion, inFlightOp, pendingOp>>

InitContention ==
  /\ InitDb
  /\ InitRefs
  /\ docId = [c \in Conns |-> TheDoc]
  /\ rooms = [id \in DocIds |-> IF id = TheDoc THEN Conns ELSE {}]
  /\ handlers = <<>>

\* a step of some send-op handler
ServerStep ==
  \/ \E h \in H : AcquireLock(h)
  \/ \E h \in H : AcquireTimeout(h)
  \/ \E h \in H : Load(h)
  \/ \E h \in H : Fetch(h)
  \/ \E h \in H : Commit(h)
  \/ \E h \in H : AppendLog(h)
  \/ \E h \in H : Emit(h)
  \/ \E h \in H : EmitError(h)
  \/ \E h \in H : Release(h)

NextContention ==
  \/ \E c \in Conns : ContendRequest(c)
  \/ \E h \in H : AcquireLock(h)
  \/ \E h \in H : AcquireTimeout(h)
  \/ \E h \in H : Load(h)
  \/ \E h \in H : Fetch(h)
  \/ \E h \in H : Commit(h)
  \/ \E h \in H : AppendLog(h)
  \/ \E h \in H : Emit(h)
  \/ \E h \in H : EmitError(h)
  \/ \E h \in H : Release(h)
  \/ \E id \in DocIds : LockExpire(id)

\* the event loop runs every handler whose awaited call has completed
SpecContention ==
  InitContention /\ [][NextContention]_vars /\ WF_vars(ServerStep)

\* The Redis mutex ---------------------------------------------------------

\* a send-op arrives on connection c
LockRequest(c) ==
  /\ nInputs < MaxLockReq
  /\ \A k \in H : handlers[k].lockOwner # <<c, FreshId(handlers)>>
  /\ nInputs' = nInputs + 1
  /\ handlers' = Spawn(handlers,
                       NewHandler("send", c, TheDoc, <<CharOf(c)>>, doc.version))
  /\ UNCHANGED <<doc, opLog, lock, rooms, s2c,
                 docId, view, knownVersion, inFlightOp, pendingOp>>

\* a send-op arrives on connection c in the millisecond in which handler k
\* of the same socket started
LockRequestSameMs(c, k) ==
  /\ nInputs < MaxLockReq
  /\ handlers[k].kind = "send" /\ handlers[k].conn = c
  /\ handlers[k].pc = "acquire"
  /\ nInputs' = nInputs + 1
  /\ handlers' = SpawnSameMs(handlers,
                             NewHandler("send", c, TheDoc, <<CharOf(c)>>,
                                        doc.version), k)
  /\ UNCHANGED <<doc, opLog, lock, rooms, s2c,
                 docId, view, knownVersion, inFlightOp, pendingOp>>

NextLock ==
  \/ \E c \in Conns : LockRequest(c)
  \/ \E c \in Conns : \E k \in H : LockRequestSameMs(c, k)
  \/ \E h \in H : AcquireLock(h)
  \/ \E h \in H : AcquireTimeout(h)
  \/ \E h \in H : AcquireFail(h)
  \/ \E h \in H : Load(h)
  \/ \E h \in H : Fetch(h)
  \/ \E h \in H : Commit(h)
  \/ \E h \in H : AppendLog(h)
  \/ \E h \in H : Emit(h)
  \/ \E h \in H : EmitError(h)
  \/ \E h \in H : Release(h)
  \/ \E id \in DocIds : LockExpire(id)

SpecLock == InitContention /\ [][NextLock]_vars

\* Joining while others edit -----------------------------------------------

\* a join-doc message arrives on connection c
JoinRequest(c, id, fromVersion) ==
  /\ nInputs < MaxJoinReq
  /\ \A h \in H : handlers[h].conn # c
  /\ nInputs' = nInputs + 1
  /\ handlers' = Spawn(handlers, NewHandler("join", c, id, <<>>, fromVersion))
  /\ UNCHANGED <<doc, opLog, lock, rooms, s2c,
                 docId, view, knownVersion, inFlightOp, pendingOp>>

\* connection c, in the room and with no message of its own being handled,
\* sends an insert at the head of the document based on the current version
EditRequest(c) ==
  /\ nInputs < MaxJoinReq
  /\ c \in rooms[TheDoc]
  /\ \A h \in H : handlers[h].conn # c
  /\ nInputs' = nInputs + 1
  /\ handlers' = Spawn(handlers,
                       NewHandler("send", c, TheDoc, <<CharOf(c)>>, doc.version))
  /\ UNCHANGED <<doc, opLog, lock, rooms, s2c,
                 docId, view, knownVersion, inFlightOp, pendingOp>>

\* the document as created or after one op; connection 2 is in its room
InitJoin ==
  /\ InitDb \/ SeededDb
  /\ InitRefs
  /\ docId = [c \in Conns |-> TheDoc]
  /\ rooms = [id \in DocIds |-> IF id = TheDoc THEN {2} ELSE {}]
  /\ handlers = <<>>

NextJoin ==
  \/ \E c \in Conns, id \in DocIds, v \in {Undefined} \cup 0..MaxBase :
        JoinRequest(c, id, v)
  \/ \E c \in Conns : EditRequest(c)
  \/ \E h \in H : JoinRoom(h)
  \/ \E h \in H : JoinLoad(h)
  \/ \E h \in H : JoinReply(h)
  \/ \E h \in H : JoinFetch(h)
  \/ \E h \in H : JoinCatchup(h)
  \/ \E h \in H : AcquireLock(h)
  \/ \E h \in H : Load(h)
  \/ \E h \in H : Fetch(h)
  \/ \E h \in H : Commit(h)
  \/ \E h \in H : AppendLog(h)
  \/ \E h \in H : Emit(h)
  \/ \E h \in H : Release(h)

SpecJoin == InitJoin /\ [][NextJoin]_vars

\* Two inserts at one position from one base -----------------------------

\* both connections send an insert at position p of the document they see
TieRequests(p) ==
  /\ nInputs = 0
  /\ p <= Len(doc.content)
  /\ nInputs' = 2
  /\ handlers' =
       Spawn(Spawn(handlers,
                   NewHandler("send", 1, TheDoc, Retains(p) \o <<"A">>,
                              doc.version)),
             NewHandler("send", 2, TheDoc, Retains(p) \o <<"B">>, doc.version))
  /\ UNCHANGED <<doc, opLog, lock, rooms, s2c,
                 docId, view, knownVersion, inFlightOp, pendingOp>>

NextTie ==
  \/ \E p \in 0..1 : TieRequests(p)
  \/ \E h \in H : AcquireLock(h)
  \/ \E h \in H : AcquireTimeout(h)
  \/ \E h \in H : Load(h)
  \/ \E h \in H : Fetch(h)
  \/ \E h \in H : Commit(h)
  \/ \E h \in H : AppendLog(h)
  \/ \E h \in H : Emit(h)
  \/ \E h \in H : Release(h)
  \/ \E id \in DocIds : LockExpire(id)

SpecTie == InitServer /\ [][NextTie]_vars

\* Clients that resynchronise: the lock service may fail, the handler then
\* answers op-error and the client joins again --------------------------------

\* the user types at the end of the editor contents v
EndEdits(c, v) == {Retains(Len(v)) \o <<CharOf(c)>>}

NextResync ==
  \/ \E c \in Conns : \E d \in EndEdits(c, view[c]) : LocalEdit(c, d)
  \/ \E c \in Conns : RecvAck(c)
  \/ \E c \in Conns : RecvRemoteOp(c)
  \/ \E c \in Conns : RecvOpError(c)
  \/ \E c \in Conns : RecvCatchup(c)
  \/ \E c \in Conns : RecvSnapshot(c)
  \/ \E h \in H : AcquireLock(h)
  \/ \E h \in H : AcquireFail(h)
  \/ \E h \in H : Load(h)
  \/ \E h \in H : Fetch(h)
  \/ \E h \in H : Commit(h)
  \/ \E h \in H : AppendLog(h)
  \/ \E h \in H : Emit(h)
  \/ \E h \in H : EmitError(h)
  \/ \E h \in H : Release(h)
  \/ \E h \in H : JoinRoom(h)
  \/ \E h \in H : JoinLoad(h)
  \/ \E h \in H : JoinReply(h)
  \/ \E h \in H : JoinFetch(h)
  \/ \E h \in H : JoinCatchup(h)

SpecResync == Init /\ [][NextResync]_vars

\* Clients whose transport delivers an op-ack twice ------------------------

\* the message client c handles next is an op-ack it has handled already:
\* every version is acknowledged to one sender once, and no other message
\* of these runs brings knownVersion to an acknowledged version
Redelivery(c) ==
  /\ NextMsg(c, "op-ack")
  /\ knownVersion[c] = Head(s2c[c]).version

\* the transport repeats the op-ack that client c handles next
DuplicateAck(c) ==
  /\ NextMsg(c, "op-ack")
  /\ ~Redelivery(c)
  /\ Len(s2c[c]) >= 2 => s2c[c][2] # Head(s2c[c])
  /\ s2c' = [s2c EXCEPT ![c] = <<Head(@)>> \o @]
  /\ UNCHANGED <<doc, opLog, lock, rooms, handlers, clientVars>>

\* the second delivery follows the first with no local edit in between
NextDupAck ==
  \/ \E c \in Conns : \E d \in EndEdits(c, view[c]) :
       ~Redelivery(c) /\ LocalEdit(c, d)
  \/ \E c \in Conns : RecvAck(c)
  \/ \E c \in Conns : RecvRemoteOp(c)
  \/ \E c \in Conns : DuplicateAck(c)
  \/ \E h \in H : AcquireLock(h)
  \/ \E h \in H : Load(h)
  \/ \E h \in H : Fetch(h)
  \/ \E h \in H : Commit(h)
  \/ \E h \in H : AppendLog(h)
  \/ \E h \in H : Emit(h)
  \/ \E h \in H : Release(h)

SpecDupAck == Init /\ [][NextDupAck]_vars

\* Room membership: leave-doc and disconnect -------------------------------

\* const userId = socket.data.userId ?? socket.id: one user per connection
userId(c) == c

UserLeftMsg(c) ==
  [type |-> "user-left", delta |-> <<>>, version |-> 0, ops |-> <<>>,
   userId |-> userId(c)]

\* leave-doc handler: socket.leave(docId), then user-left to the room
LeaveDoc(c, id) ==
  /\ nInputs < MaxRoomReq
  /\ \A h \in H : handlers[h].conn # c
  /\ nInputs' = nInputs + 1
  /\ rooms' = [rooms EXCEPT ![id] = @ \ {c}]
  /\ s2c' = [c2 \in Conns |->
        IF c2 \in rooms'[id] /\ c2 # c
        THEN Append(s2c[c2], UserLeftMsg(c)) ELSE s2c[c2]]
  /\ UNCHANGED <<doc, opLog, lock, handlers,
                 docId, view, knownVersion, inFlightOp, pendingOp>>

\* the connection closes: Socket.io takes the socket out of its rooms and
\* drops what was on its way to it; the disconnect handler only logs
Disconnect(c) ==
  /\ nInputs < MaxRoomReq
  /\ \A h \in H : handlers[h].conn # c
  /\ nInputs' = nInputs + 1
  /\ rooms' = [id \in DocIds |-> rooms[id] \ {c}]
  /\ s2c' = [s2c EXCEPT ![c] = <<>>]
  /\ UNCHANGED <<doc, opLog, lock, handlers,
                 docId, view, knownVersion, inFlightOp, pendingOp>>

NextRooms ==
  \/ \E c \in Conns, id \in DocIds : JoinRequest(c, id, Undefined)
  \/ \E c \in Conns, id \in DocIds : LeaveDoc(c, id)
  \/ \E c \in Conns : Disconnect(c)
  \/ \E h \in H : JoinRoom(h)
  \/ \E h \in H : JoinLoad(h)
  \/ \E h \in H : JoinReply(h)

SpecRooms == InitJoin /\ [][NextRooms]_vars

\* Two concurrent deltas on one base ---------------------------------------

\* the document texts of the diamond specification
DocTexts == {SubSeq(<<"A", "B">>, 1, n) : n \in 0..MaxDocLen}

\* sequences of length n over S
SeqsOf(S, n) == [1..n -> S]

\* the deltas client c can produce on the text B: retains, deletes and
\* inserts of its character, no trailing retain, nothing past the end of B
DeltasOn(c, B) ==
  {d \in UNION {SeqsOf({"r", "d", CharOf(c)}, n) : n \in 1..MaxDeltaLen} :
     /\ d[Len(d)] # "r"
     /\ BaseLen(d) <= Len(B)}

\* the document holds B, committed as one op; each client has made the
\* change a (client 1) or b (client 2) on it and sent it
InitDiamond ==
  \E B \in DocTexts : \E a \in DeltasOn(1, B), b \in DeltasOn(2, B) :
    LET v0 == IF B = <<>> THEN 0 ELSE 1
    IN  /\ doc = [content |-> B, version |-> v0]
        /\ opLog = IF B = <<>> THEN {}
                   ELSE {[docId |-> TheDoc, version |-> 1, delta |-> B,
                          socketId |-> 1]}
        /\ lock = [id \in DocIds |-> None]
        /\ s2c = [c \in Conns |-> <<>>]
        /\ docId = [c \in Conns |-> TheDoc]
        /\ rooms = [id \in DocIds |-> IF id = TheDoc THEN Conns ELSE {}]
        /\ view = <<updateContents(B, a), updateContents(B, b)>>
        /\ knownVersion = [c \in Conns |-> v0]
        /\ inFlightOp = <<Some(a), Some(b)>>
        /\ pendingOp = [c \in Conns |-> None]
        /\ nInputs = 0
        /\ handlers = flushInflight(flushInflight(<<>>, 1, a, v0), 2, b, v0)

NextDiamond ==
  \/ \E c \in Conns : RecvAck(c)
  \/ \E c \in Conns : RecvRemoteOp(c)
  \/ \E h \in H : AcquireLock(h)
  \/ \E h \in H : Load(h)
  \/ \E h \in H : Fetch(h)
  \/ \E h \in H : Commit(h)
  \/ \E h \in H : AppendLog(h)
  \/ \E h \in H : Emit(h)
  \/ \E h \in H : Release(h)

SpecDiamond == InitDiamond /\ [][NextDiamond]_vars

\* send-op messages without a usable baseVersion ---------------------------

\* baseVersion missing or not a number, and baseVersion negative
MalformedBases == {Undefined, NegativeBase}

NextMalformed ==
  \/ \E c \in Conns, id \in DocIds, d \in ReqDeltas, b \in MalformedBases :
        SendOpRequest(c, id, d, b)
  \/ \E h \in H : AcquireLock(h)
  \/ \E h \in H : AcquireTimeout(h)
  \/ \E h \in H : Load(h)
  \/ \E h \in H : Fetch(h)
  \/ \E h \in H : Commit(h)
  \/ \E h \in H : AppendLog(h)
  \/ \E h \in H : Emit(h)
  \/ \E h \in H : EmitError(h)
  \/ \E h \in H : Release(h)
  \/ \E id \in DocIds : LockExpire(id)

SpecMalformed == InitServer /\ [][NextMalformed]_vars

\* One writer at a time, up to date -----------------------------------------

\* a send-op based on the document's current version arrives while no other
\* message is being handled
SoloRequest(c, d) ==
  /\ H = {}
  /\ SendOpRequest(c, TheDoc, d, doc.version)

NextSolo ==
  \/ \E c \in Conns, d \in ReqDeltas : SoloRequest(c, d)
  \/ \E h \in H : AcquireLock(h)
  \/ \E h \in H : Load(h)
  \/ \E h \in H : Commit(h)
  \/ \E h \in H : AppendLog(h)
  \/ \E h \in H : Emit(h)
  \/ \E h \in H : Release(h)
  \/ \E id \in DocIds : LockExpire(id)

SpecSolo == InitServer /\ [][NextSolo]_vars

\* The log append reports a duplicate ---------------------------------------

NextDupLog ==
  \/ \E c \in Conns, d \in ReqDeltas : SoloRequest(c, d)
  \/ \E h \in H : AcquireLock(h)
  \/ \E h \in H : Load(h)
  \/ \E h \in H : Commit(h)
  \/ \E h \in H : AppendLog(h)
  \/ \E h \in H : AppendLogDuplicate(h)
  \/ \E h \in H : Emit(h)
  \/ \E h \in H : EmitError(h)
  \/ \E h \in H : Release(h)

SpecDupLog == InitServer /\ [][NextDupLog]_vars

\* Every outcome of a send-op ----------------------------------------------

\* a step of some send-op handler, failures of the lock service and of the
\* log append included
ReplyStep ==
  \/ \E h \in H : AcquireLock(h)
  \/ \E h \in H : AcquireTimeout(h)
  \/ \E h \in H : AcquireFail(h)
  \/ \E h \in H : Load(h)
  \/ \E h \in H : Fetch(h)
  \/ \E h \in H : Commit(h)
  \/ \E h \in H : AppendLog(h)
  \/ \E h \in H : AppendLogDuplicate(h)
  \/ \E h \in H : Emit(h)
  \/ \E h \in H : EmitError(h)
  \/ \E h \in H : Release(h)
  \/ \E h \in H : ReleaseFail(h)

\* a send-op arrives on connection c: an insert at the head of document id,
\* based on the version the server is at
ReplyRequest(c, id) ==
  /\ nInputs < MaxReq
  /\ nInputs' = nInputs + 1
  /\ handlers' = Spawn(handlers,
                       NewHandler("send", c, id, <<CharOf(c)>>, doc.version))
  /\ UNCHANGED <<doc, opLog, lock, rooms, s2c,
                 docId, view, knownVersion, inFlightOp, pendingOp>>

NextReply ==
  \/ \E c \in Conns, id \in DocIds : ReplyRequest(c, id)
  \/ \E h \in H : AcquireLock(h)
  \/ \E h \in H : AcquireTimeout(h)
  \/ \E h \in H : AcquireFail(h)
  \/ \E h \in H : Load(h)
  \/ \E h \in H : Fetch(h)
  \/ \E h \in H : Commit(h)
  \/ \E h \in H : AppendLog(h)
  \/ \E h \in H : AppendLogDuplicate(h)
  \/ \E h \in H : Emit(h)
  \/ \E h \in H : EmitError(h)
  \/ \E h \in H : Release(h)
  \/ \E h \in H : ReleaseFail(h)
  \/ \E id \in DocIds : LockExpire(id)

\* the event loop runs every handler whose awaited call has settled
SpecReply == InitContention /\ [][NextReply]_vars /\ WF_vars(ReplyStep)


\* Progress of the client's op queue -----------------------------------------

\* a step of some send-op or join-doc handler
HandlerStep ==
  \/ \E h \in H : AcquireLock(h)
  \/ \E h \in H : AcquireFail(h)
  \/ \E h \in H : Load(h)
  \/ \E h \in H : Fetch(h)
  \/ \E h \in H : Commit(h)
  \/ \E h \in H : AppendLog(h)
  \/ \E h \in H : Emit(h)
  \/ \E h \in H : EmitError(h)
  \/ \E h \in H : Release(h)
  \/ \E h \in H : JoinRoom(h)
  \/ \E h \in H : JoinLoad(h)
  \/ \E h \in H : JoinReply(h)
  \/ \E h \in H : JoinFetch(h)
  \/ \E h \in H : JoinCatchup(h)

\* client c handles the next message of its socket
Deliver(c) ==
  \/ RecvAck(c)
  \/ RecvRemoteOp(c)
  \/ RecvOpError(c)
  \/ RecvCatchup(c)
  \/ RecvSnapshot(c)

\* the user of client c types at the end of the editor; client 2 types the
\* first character of a run or none
ProgressEdit(c) ==
  /\ c # 1 => nInputs = 0
  /\ \E d \in EndEdits(c, view[c]) : LocalEdit(c, d)

NextProgress ==
  \/ \E c \in Conns : ProgressEdit(c)
  \/ \E c \in Conns : RecvAck(c)
  \/ \E c \in Conns : RecvRemoteOp(c)
  \/ \E c \in Conns : RecvOpError(c)
  \/ \E c \in Conns : RecvCatchup(c)
  \/ \E c \in Conns : RecvSnapshot(c)
  \/ \E h \in H : AcquireLock(h)
  \/ \E h \in H : AcquireFail(h)
  \/ \E h \in H : Load(h)
  \/ \E h \in H : Fetch(h)
  \/ \E h \in H : Commit(h)
  \/ \E h \in H : AppendLog(h)
  \/ \E h \in H : Emit(h)
  \/ \E h \in H : EmitError(h)
  \/ \E h \in H : Release(h)
  \/ \E h \in H : JoinRoom(h)
  \/ \E h \in H : JoinLoad(h)
  \/ \E h \in H : JoinReply(h)
  \/ \E h \in H : JoinFetch(h)
  \/ \E h \in H : JoinCatchup(h)

\* every handler whose awaited call has settled runs on, and every message
\* emitted to a connected socket is handled by its client
SpecProgress ==
  /\ Init
  /\ [][NextProgress]_vars
  /\ WF_vars(HandlerStep)
  /\ \A c \in Conns : WF_vars(Deliver(c))


\* ------------------------------------------------------------------------
\* Convergence (Spec)
\* ------------------------------------------------------------------------

\* every local edit is acknowledged and every emitted message is delivered
Quiescent ==
  /\ handlers = <<>>
  /\ \A c \in Conns :
       s2c[c] = <<>> /\ inFlightOp[c] = None /\ pendingOp[c] = None

\* C1: once no client has an in-flight or pending op and no message is in
\* transit, the view of every subscribed client equals the server's content
C1_Convergence ==
  Quiescent => \A c \in rooms[TheDoc] : view[c] = doc.content

\* ------------------------------------------------------------------------
\* Properties of the write path (SpecServer)
\* ------------------------------------------------------------------------

\* the call has passed the version gate / has its log entry written
Committed(h) == handlers[h].kind = "send" /\ handlers[h].newVersion > 0
Returned(h) == Committed(h) /\ handlers[h].pc \in {"emit", "release"}

NoAppendPending == \A h \in H : handlers[h].pc # "log"

MaxLogVersion ==
  IF opLog = {} THEN 0
  ELSE CHOOSE v \in {e.version : e \in opLog} : \A e \in opLog : e.version <= v

\* C2: whenever no applyOperation call is between its commit and its log
\* append, composing the log's deltas in ascending version order onto the
\* empty delta yields doc.content, and doc.version is the largest log version
C2_LogSnapshotConsistency ==
  NoAppendPending =>
    /\ FoldLog(Deltas(SortByVersion(LogOf(TheDoc))), <<>>) = doc.content
    /\ doc.version = MaxLogVersion

\* two calls have committed and logged, one of them without holding the lock
C2_Witness ==
  /\ NoAppendPending
  /\ \E h1, h2 \in H :
       /\ h1 # h2
       /\ Returned(h1) /\ Returned(h2)
       /\ ~handlers[h2].lockAcquired

\* C3: the version-gated update changes content and version only when the
\* stored version equals the version loaded by the attempt; otherwise the
\* document is left as it is and control returns to the head of the retry
\* loop (a new attempt, or the contention error after MAX_RETRIES attempts)
C3_VersionGate ==
  [][\A h \in H :
       (handlers[h].pc = "commit" /\ h \in DOMAIN handlers'
          /\ handlers'[h].pc # "commit") =>
         IF doc.version = handlers[h].currentVersion
         THEN /\ doc' = [content |-> compose(handlers[h].currentContent,
                                             handlers[h].transformedDelta),
                         version |-> handlers[h].currentVersion + 1]
              /\ handlers'[h].pc = "log"
         ELSE /\ doc' = doc
              /\ handlers'[h].pc =
                   IF handlers[h].attempt < MAX_RETRIES THEN "load" ELSE "error"]_vars

\* a call missed the gate, retried and committed on a later attempt
C3_Witness ==
  \E h \in H : handlers[h].attempt >= 2 /\ Committed(h)

\* C4: the version never decreases, every commit raises it by exactly one,
\* and no two successful applyOperation calls return the same newVersion: a
\* call that has committed version n finds no log entry of version n and no
\* other call holding n
C4_NoLostUpdate ==
  /\ [][doc' # doc => doc'.version = doc.version + 1]_vars
  /\ [](\A h1 \in H :
          Committed(h1) =>
            /\ \A h2 \in H \ {h1} :
                 Committed(h2) => handlers[h1].newVersion # handlers[h2].newVersion
            /\ handlers[h1].pc = "log" =>
                 \A e \in LogOf(TheDoc) : e.version # handlers[h1].newVersion)

\* two calls that raced for the same version have both committed
C4_Witness ==
  \E h1, h2 \in H :
    /\ h1 # h2
    /\ Committed(h1) /\ Committed(h2)
    /\ handlers[h2].attempt >= 2
    /\ handlers[h1].newVersion + 1 = handlers[h2].newVersion

\* the delta committed at version v: logged, or held by the call that is
\* about to log it
CommittedDeltaAt(v) ==
  IF \E e \in LogOf(TheDoc) : e.version = v
  THEN LET e == CHOOSE f \in LogOf(TheDoc) : f.version = v IN e.delta
  ELSE LET h == CHOOSE k \in H : Committed(k) /\ handlers[k].newVersion = v
       IN  handlers[h].transformedDelta

CommittedDeltas(from, to) ==
  [i \in 1..(IF to >= from THEN to - from + 1 ELSE 0) |->
     CommittedDeltaAt(from + i - 1)]

\* C5: every op that commits at version n from base version b is the
\* client's delta transformed against exactly the deltas committed at
\* versions b+1 .. n-1, also when handlers run without the lock
C5_CatchUpComplete ==
  \A h \in H :
    Committed(h) =>
      handlers[h].transformedDelta =
        transformMultiple(handlers[h].clientDelta,
                          CommittedDeltas(handlers[h].clientVersion + 1,
                                          handlers[h].newVersion - 1))

\* C6: no two log entries share the same (docId, version)
C6_UniqueLogVersion ==
  \A e, f \in opLog :
    (e.docId = f.docId /\ e.version = f.version) => e = f

\* two concurrent calls, one without the lock, have both appended entries
C6_Witness ==
  \E h1, h2 \in H :
    /\ h1 # h2
    /\ handlers[h1].pc = "release" /\ handlers[h2].pc = "release"
    /\ ~handlers[h1].lockAcquired
    /\ \E e, f \in opLog : /\ e.version = handlers[h1].newVersion
                           /\ f.version = handlers[h2].newVersion

\* C7: a call whose clientVersion is greater than the document's version
\* fails and commits nothing
C7_VersionAhead ==
  \A h \in H :
    (handlers[h].kind = "send" /\ handlers[h].attempt >= 1
       /\ handlers[h].clientVersion > handlers[h].currentVersion) =>
      ~Committed(h)

\* C10: for every committed op the sender gets op-ack and no receive-op,
\* and every other connection subscribed to the room gets the receive-op
C10_SenderExclusion ==
  /\ [][\A h \in H :
          (handlers[h].pc = "emit" /\ h \in DOMAIN handlers'
             /\ handlers'[h].pc = "release") =>
            LET hd == handlers[h] IN
            \A c \in Conns :
              s2c'[c] =
                IF c = hd.conn
                  THEN Append(s2c[c], Msg("op-ack", <<>>, hd.newVersion, <<>>))
                ELSE IF c \in rooms[hd.docId]
                  THEN Append(s2c[c], Msg("receive-op", hd.transformedDelta,
                                          hd.newVersion, <<>>))
                ELSE s2c[c]]_vars
  /\ [](\A c \in Conns : \A i \in DOMAIN s2c[c] :
          s2c[c][i].type = "receive-op" =>
            \A e \in LogOf(TheDoc) :
              e.version = s2c[c][i].version => e.socketId # c)

\* an op was committed and emitted while another connection was in the room
\* and the sender itself was in it too
C10_Witness ==
  \E c1, c2 \in Conns :
    /\ c1 # c2
    /\ {c1, c2} \subseteq rooms[TheDoc]
    /\ \E i \in DOMAIN s2c[c1] : s2c[c1][i].type = "op-ack"
    /\ \E i \in DOMAIN s2c[c2] : s2c[c2][i].type = "receive-op"

\* the versions of the receive-op messages emitted to connection c, in order
IsReceiveOp(m) == m.type = "receive-op"
ReceivedVersions(c) ==
  LET r == SelectSeq(s2c[c], IsReceiveOp) IN [i \in DOMAIN r |-> r[i].version]

\* the versions acknowledged to connection c
AckedVersions(c) ==
  {s2c[c][i].version : i \in {j \in DOMAIN s2c[c] : s2c[c][j].type = "op-ack"}}

\* C11: the receive-op versions emitted to one connection are strictly
\* increasing, and a version between two consecutive ones is the version of
\* an op acknowledged to that connection
C11_ReceiveOrder ==
  \A c \in Conns :
    LET vs == ReceivedVersions(c) IN
    \A i \in 1..(Len(vs) - 1) :
      /\ vs[i] < vs[i + 1]
      /\ \A u \in (vs[i] + 1)..(vs[i + 1] - 1) : u \in AckedVersions(c)

\* C12: on a connection no receive-op of a version v' precedes the op-ack
\* of a version v < v'
C12_AckBeforeLater ==
  \A c \in Conns : \A i, j \in DOMAIN s2c[c] :
    (i < j /\ s2c[c][i].type = "receive-op" /\ s2c[c][j].type = "op-ack") =>
      s2c[c][i].version < s2c[c][j].version

\* the positions of the answers (op-ack, op-error) emitted so far
Answers ==
  {p \in UNION {{<<c, i>> : i \in DOMAIN s2c[c]} : c \in Conns} :
     s2c[p[1]][p[2]].type \in {"op-ack", "op-error"}}

\* C13: a failed request is answered by one op-error with its baseVersion to
\* its own connection and by nothing else: the step out of the catch appends
\* that message and changes no other queue, every request has exactly one
\* answer, and every op-ack and receive-op belongs to a committed op
C13_ErrorReply ==
  /\ [][\A h \in H :
          (handlers[h].pc = "error"
             /\ (h \notin DOMAIN handlers' \/ handlers'[h].pc # "error")) =>
            /\ h \in DOMAIN handlers' /\ handlers'[h].pc = "release"
            /\ s2c' = [s2c EXCEPT ![handlers[h].conn] =
                  Append(@, Msg("op-error", <<>>, handlers[h].clientVersion,
                                <<>>))]]_vars
  /\ [](Cardinality(Answers) =
          nInputs - Cardinality({h \in H : handlers[h].pc # "release"}))
  /\ [](\A c \in Conns : \A i \in DOMAIN s2c[c] :
          LET m == s2c[c][i] IN
          /\ m.type = "receive-op" =>
               \E e \in opLog : e.version = m.version /\ e.delta = m.delta
                                 /\ e.socketId # c
          /\ m.type = "op-ack" =>
               \E e \in opLog : e.version = m.version /\ e.socketId = c)

\* a request on a missing document was answered with op-error while the
\* other connection, in the room of the existing document, got nothing
C13_Witness ==
  \E c \in Conns :
    /\ \E i \in DOMAIN s2c[c] : s2c[c][i].type = "op-error"
    /\ rooms[TheDoc] = Conns
    /\ \A h \in H : handlers[h].pc = "release"
    /\ nInputs = MaxReq

\* ------------------------------------------------------------------------
\* Bounded retry (SpecContention)
\* ------------------------------------------------------------------------

\* C8: applyOperation makes at most MAX_RETRIES commit attempts; it fails
\* only after MAX_RETRIES attempts that all missed the version gate, the
\* failure reaches the sender as op-error, and every call terminates
C8_BoundedRetry ==
  /\ [](\A h \in H :
          /\ handlers[h].attempt <= MAX_RETRIES
          /\ handlers[h].pc = "error" =>
               handlers[h].attempt = MAX_RETRIES /\ ~Committed(h))
  /\ [][\A h \in H :
          (handlers[h].pc = "error" /\ h \in DOMAIN handlers'
             /\ handlers'[h].pc # "error") =>
            /\ handlers'[h].pc = "release"
            /\ s2c'[handlers[h].conn] =
                 Append(s2c[handlers[h].conn],
                        Msg("op-error", <<>>, handlers[h].clientVersion, <<>>))
            /\ doc' = doc /\ opLog' = opLog]_vars
  /\ <>[](handlers = <<>>)

\* a call has missed the gate MAX_RETRIES times and reported op-error
C8_Witness ==
  \E h \in H :
    /\ handlers[h].pc = "release"
    /\ handlers[h].attempt = MAX_RETRIES
    /\ ~Committed(h)
    /\ \E i \in DOMAIN s2c[handlers[h].conn] :
         s2c[handlers[h].conn][i].type = "op-error"

\* ------------------------------------------------------------------------
\* Tie-break (SpecTie)
\* ------------------------------------------------------------------------

\* C9: of two inserts at the same position from the same base, the one
\* committed second is transformed to land after the one committed first:
\* its delta gains one leading retain, and the content has the first
\* insertion before the second ("AB" on the empty document)
C9_TieBreak ==
  \A h \in H :
    (Committed(h) /\ Len(handlers[h].missedOps) = 1) =>
      /\ handlers[h].transformedDelta = <<"r">> \o handlers[h].clientDelta
      /\ doc.content = compose(handlers[h].currentContent,
                               <<"r">> \o handlers[h].clientDelta)

\* ------------------------------------------------------------------------
\* The Redis mutex (SpecLock)
\* ------------------------------------------------------------------------

\* C14: acquireLock returns true only in a step that finds the key absent
\* and stores the caller's token; the key holds at most one token, which is
\* the token of a running handler whose acquisition returned true; so a
\* second handler acquires only after the first one's key is gone
C14_LockMutex ==
  /\ [][\A h \in H :
          (~handlers[h].lockAcquired /\ h \in DOMAIN handlers'
             /\ handlers'[h].lockAcquired) =>
            /\ lock[handlers[h].docId] = None
            /\ lock'[handlers[h].docId] = handlers[h].lockOwner]_vars
  /\ [](\A id \in DocIds :
          lock[id] # None =>
            \E h \in H : /\ handlers[h].lockAcquired
                          /\ handlers[h].docId = id
                          /\ handlers[h].lockOwner = lock[id])

\* two running handlers both had their acquisition return true: the first
\* one's key expired before the second acquired
C14_Witness ==
  \E h1, h2 \in H :
    /\ h1 # h2
    /\ handlers[h1].lockAcquired /\ handlers[h2].lockAcquired
    /\ handlers[h1].pc # "release" /\ handlers[h2].pc # "release"

\* C15: the release changes the key only when the stored value is the
\* releasing handler's own token; the key of another handler, whose token
\* differs, survives the release of a handler whose own key expired
C15_FencedRelease ==
  [][\A h \in H :
       (handlers[h].pc = "release" /\ h \notin DOMAIN handlers') =>
         /\ lock' # lock =>
              /\ handlers[h].lockAcquired
              /\ lock[handlers[h].docId] = handlers[h].lockOwner
              /\ lock' = [lock EXCEPT ![handlers[h].docId] = None]
         /\ \A k \in H \ {h} :
              (handlers[k].lockAcquired
                 /\ lock[handlers[k].docId] = handlers[k].lockOwner
                 /\ handlers[k].lockOwner # handlers[h].lockOwner) =>
                lock' = lock]_vars

\* a handler whose key expired is about to release while another handler,
\* with another token, holds the key
C15_Witness ==
  \E h, k \in H :
    /\ h # k
    /\ handlers[h].pc = "release" /\ handlers[h].lockAcquired
    /\ handlers[k].lockAcquired /\ handlers[k].pc # "release"
    /\ handlers[k].lockOwner # handlers[h].lockOwner
    /\ lock[TheDoc] = handlers[k].lockOwner

\* C16: no op-error is sent because of the lock: a handler is in its catch
\* only after applyOperation was called and failed
C16_LockFailureNoError ==
  \A h \in H :
    (handlers[h].kind = "send" /\ handlers[h].pc = "error") =>
      handlers[h].attempt >= 1

\* ------------------------------------------------------------------------
\* join-doc (SpecJoin)
\* ------------------------------------------------------------------------

\* the reply a join-doc handler owes, given the document as it read it
JoinReplyOf(hd) ==
  IF hd.docId # TheDoc THEN Msg("error", <<>>, 0, <<>>)
  ELSE IF hd.clientVersion # Undefined /\ hd.clientVersion < hd.currentVersion
  THEN Msg("catchup-ops", <<>>, hd.currentVersion, hd.missedOps)
  ELSE Msg("doc-snapshot", hd.currentContent, hd.currentVersion, <<>>)

\* C17: a join-doc handler emits nothing until it ends, and ends by
\* appending exactly one message to the joining connection's queue: error
\* when the document does not exist, catchup-ops when fromVersion is given
\* and below the version read, doc-snapshot with the content and version
\* read otherwise; no other queue changes
C17_JoinReply ==
  [][\A h \in H :
       (handlers[h].kind = "join"
          /\ (h \notin DOMAIN handlers' \/ handlers'[h] # handlers[h])) =>
         IF h \in DOMAIN handlers' /\ handlers'[h].kind = "join"
         THEN s2c' = s2c
         ELSE s2c' = [s2c EXCEPT ![handlers[h].conn] =
                        Append(@, JoinReplyOf(handlers[h]))]]_vars

\* a join without fromVersion on the once-edited document was answered with
\* a doc-snapshot, and a join that was behind with catchup-ops
C17_Witness ==
  \E c1, c2 \in Conns :
    /\ \E i \in DOMAIN s2c[c1] : /\ s2c[c1][i].type = "doc-snapshot"
                                  /\ s2c[c1][i].version > 0
    /\ \E i \in DOMAIN s2c[c2] : /\ s2c[c2][i].type = "catchup-ops"
                                  /\ s2c[c2][i].ops # <<>>

\* C18: the ops of a catchup-ops reply are the log entries of versions
\* fromVersion+1 .. currentVersion in ascending order, currentVersion being
\* the value the same reply carries
C18_CatchupExact ==
  \A h \in H :
    (handlers[h].kind = "join" /\ handlers[h].pc = "jcatchup") =>
      LET hd == handlers[h]
          n == hd.currentVersion - hd.clientVersion
      IN  /\ Len(hd.missedOps) = n
          /\ \A i \in 1..Len(hd.missedOps) :
               /\ hd.missedOps[i].version = hd.clientVersion + i
               /\ hd.missedOps[i] \in LogOf(TheDoc)

\* ------------------------------------------------------------------------
\* C19
\* ------------------------------------------------------------------------

\* the send-ops of connection c that the client has sent and whose op-ack or
\* op-error it has not handled yet: handlers that have not emitted their
\* reply, and replies still on their way to the client
Unanswered(c) ==
  Cardinality({h \in H : /\ handlers[h].kind = "send"
                         /\ handlers[h].conn = c
                         /\ handlers[h].pc # "release"})
  + Len(SelectSeq(s2c[c], LAMBDA m : m.type \in {"op-ack", "op-error"}))

\* C19: after any sequence of local edits, op-ack, op-error, receive-op,
\* doc-snapshot and catchup-ops events a client has at most one send-op
\* outstanding without op-ack or op-error, and it has one exactly while its
\* inFlightOp is set
C19_OneOutstanding ==
  \A c \in Conns :
    /\ Unanswered(c) <= 1
    /\ (Unanswered(c) = 1) <=> (inFlightOp[c] # None)

\* a client that has handled an op-error and joined again has one send-op
\* outstanding and a later edit buffered, the join's reply not yet handled
C19_Witness ==
  \E c \in Conns :
    /\ Unanswered(c) = 1
    /\ pendingOp[c] # None
    /\ \E i \in DOMAIN s2c[c] : s2c[c][i].type \in {"catchup-ops", "doc-snapshot"}

\* ------------------------------------------------------------------------
\* C20
\* ------------------------------------------------------------------------

\* the step is a local edit of client c made while its inFlightOp is set
EditWhileInFlight(c) ==
  /\ nInputs' # nInputs
  /\ view'[c] # view[c]
  /\ inFlightOp[c] # None

\* the step is client c handling an op-ack
AckHandled(c) ==
  /\ NextMsg(c, "op-ack")
  /\ s2c'[c] = Tail(s2c[c])

\* the step sends exactly one send-op of client c with this delta and base
SendsOp(c, delta, base) ==
  /\ H \subseteq DOMAIN handlers'
  /\ \A h \in H : handlers'[h] = handlers[h]
  /\ \E id \in DOMAIN handlers' :
       /\ DOMAIN handlers' \ H = {id}
       /\ handlers'[id].kind = "send"
       /\ handlers'[id].conn = c
       /\ handlers'[id].docId = docId[c]
       /\ handlers'[id].pc = "acquire"
       /\ handlers'[id].clientDelta = delta
       /\ handlers'[id].clientVersion = base

\* C20: a local edit made while inFlightOp is set is not sent but composed
\* into pendingOp after the edits already buffered; on op-ack(v) the client
\* sets knownVersion = v, and if pendingOp is set it becomes the new
\* inFlightOp, pendingOp becomes none and it is sent with baseVersion = v;
\* if pendingOp is none, inFlightOp becomes none and nothing is sent
C20_PendingBuffer ==
  [][\A c \in Conns :
       /\ EditWhileInFlight(c) =>
            /\ handlers' = handlers
            /\ inFlightOp'[c] = inFlightOp[c]
            /\ \E d \in UserEdits(c, view[c]) :
                 /\ view'[c] = updateContents(view[c], d)
                 /\ pendingOp'[c] =
                      IF pendingOp[c] = None THEN Some(d)
                      ELSE Some(DeltaCompose(pendingOp[c][1], d))
       /\ AckHandled(c) =>
            /\ knownVersion'[c] = Head(s2c[c]).version
            /\ pendingOp'[c] = None
            /\ IF pendingOp[c] # None
               THEN /\ inFlightOp'[c] = pendingOp[c]
                    /\ SendsOp(c, pendingOp[c][1], Head(s2c[c]).version)
               ELSE /\ inFlightOp'[c] = None
                    /\ handlers' = handlers]_vars

\* a buffer of two edits has been promoted on an op-ack: the send-op in
\* flight carries more than one change and the acknowledged version
C20_Witness ==
  \E c \in Conns : \E h \in H :
    /\ handlers[h].kind = "send"
    /\ handlers[h].conn = c
    /\ handlers[h].pc = "acquire"
    /\ handlers[h].clientVersion = knownVersion[c]
    /\ knownVersion[c] >= 1
    /\ Len(SelectSeq(handlers[h].clientDelta, LAMBDA o : o # "r")) = 2
    /\ inFlightOp[c] = Some(handlers[h].clientDelta)
    /\ pendingOp[c] = None

\* ------------------------------------------------------------------------
\* C21
\* ------------------------------------------------------------------------

\* C21: op-ack is idempotent on the client: delivering op-ack(v) a second
\* time leaves knownVersion, inFlightOp and pendingOp as they were after the
\* first delivery and sends nothing, also when the first delivery promoted
\* a pendingOp into inFlightOp
C21_AckIdempotent ==
  [][\A c \in Conns :
       (Redelivery(c) /\ AckHandled(c)) =>
         /\ knownVersion'[c] = knownVersion[c]
         /\ inFlightOp'[c] = inFlightOp[c]
         /\ pendingOp'[c] = pendingOp[c]
         /\ handlers' = handlers]_vars

\* ------------------------------------------------------------------------
\* C22
\* ------------------------------------------------------------------------

\* C22: a client's knownVersion never decreases during a session, for every
\* order in which the server's op-ack, receive-op, doc-snapshot and
\* catchup-ops reach it, joins processed during commits included
C22_KnownVersionMonotone ==
  [][\A c \in Conns : knownVersion'[c] >= knownVersion[c]]_vars

\* ------------------------------------------------------------------------
\* C23
\* ------------------------------------------------------------------------

\* the server's document content at version v: the committed deltas of
\* versions 1..v composed in order
ServerContentAt(v) == FoldLog(CommittedDeltas(1, v), <<>>)

\* the step is client c applying the reply to the join-doc it sent on op-error
ResyncApplied(c) ==
  /\ NextMsg(c, "catchup-ops") \/ NextMsg(c, "doc-snapshot")
  /\ s2c'[c] = Tail(s2c[c])

\* C23: once the reply to the join-doc sent on an op-error has been applied,
\* the client's view equals the server's document content at the replied
\* version, with no unacknowledged local edit left in it, whether the reply
\* is doc-snapshot or catchup-ops
C23_ResyncAuthoritative ==
  [][\A c \in Conns :
       ResyncApplied(c) =>
         view'[c] = ServerContentAt(Head(s2c[c]).version)]_vars

\* ------------------------------------------------------------------------
\* C24
\* ------------------------------------------------------------------------

\* the user-left messages about connection c in a queue
UserLeftCount(q, c) ==
  Len(SelectSeq(q, LAMBDA m : m.type = "user-left" /\ m.userId = userId(c)))

\* the step takes connection c, subscribed to some room, out of all rooms
LeavesAllRooms(c) ==
  /\ \E id \in DocIds : c \in rooms[id]
  /\ \A id \in DocIds : c \notin rooms'[id]

\* C24: when a connection disconnects it is removed from every room it was
\* subscribed to, and for each such room a user-left(userId) message is
\* delivered to the remaining subscribers
C24_DisconnectNotifies ==
  [][\A c \in Conns :
       LeavesAllRooms(c) =>
         \A c2 \in Conns \ {c} :
           UserLeftCount(s2c'[c2], c) =
             UserLeftCount(s2c[c2], c)
             + Cardinality({id \in DocIds : {c, c2} \subseteq rooms[id]})]_vars

\* ------------------------------------------------------------------------
\* C25
\* ------------------------------------------------------------------------

\* createDocument: the document belongs to the user who created it, here
\* the user of the connection that is in its room from the start
createdBy == userId(CHOOSE c \in Conns : \A c2 \in Conns : c2 <= c)
collaborators == {createdBy}

Authorized(c) == userId(c) = createdBy \/ userId(c) \in collaborators

\* C25: a connection whose userId is neither the owner nor a collaborator
\* of the document is never subscribed to the document's room and never
\* receives doc-snapshot, catchup-ops or receive-op for it
C25_JoinAuthorization ==
  \A c \in Conns :
    ~Authorized(c) =>
      /\ c \notin rooms[TheDoc]
      /\ \A i \in DOMAIN s2c[c] :
           s2c[c][i].type \notin {"doc-snapshot", "catchup-ops", "receive-op"}

\* ------------------------------------------------------------------------
\* C26
\* ------------------------------------------------------------------------

\* B with a, then b transformed against a without priority
DiamondLeft(B, a, b) ==
  DeltaCompose(DeltaCompose(B, a), DeltaTransform(a, b, FALSE))

\* B with b, then a transformed against b with priority
DiamondRight(B, a, b) ==
  DeltaCompose(DeltaCompose(B, b), DeltaTransform(b, a, TRUE))

\* the two changes as sent, while both send-ops wait for the lock
BothSent ==
  /\ Cardinality(H) = 2
  /\ \A h \in H : handlers[h].kind = "send" /\ handlers[h].pc = "acquire"

\* the identity for the two changes of the initial state, either one first
DiamondOfInputs ==
  BothSent =>
    \A h, k \in H :
      h # k =>
        DiamondLeft(doc.content, handlers[h].clientDelta, handlers[k].clientDelta)
          = DiamondRight(doc.content, handlers[h].clientDelta,
                         handlers[k].clientDelta)

\* the server's side: an op committed after one missed op leaves the content
\* that the sender computes from its own change and the missed op
DiamondOfServer ==
  \A h \in H :
    (Committed(h) /\ Len(handlers[h].missedOps) = 1) =>
      LET hd == handlers[h]
          a  == hd.missedOps[1].delta
      IN  /\ hd.transformedDelta = DeltaTransform(a, hd.clientDelta, FALSE)
          /\ ServerContentAt(hd.newVersion) =
               DiamondRight(ServerContentAt(hd.clientVersion), a, hd.clientDelta)

\* the client's side: a receive-op handled while the client's own change is
\* in flight leaves the view the server has after committing both
DiamondOfClient ==
  \A c \in Conns :
    (/\ NextMsg(c, "receive-op")
     /\ s2c'[c] = Tail(s2c[c])
     /\ inFlightOp[c] # None
     /\ Head(s2c[c]).version = knownVersion[c] + 1) =>
      view'[c] = DiamondLeft(ServerContentAt(knownVersion[c]),
                             Head(s2c[c]).delta, inFlightOp[c][1])

\* C26: for any base content B and two concurrent deltas a and b on B,
\* composing a and then b transformed against a without priority gives the
\* same content as composing b and then a transformed against b with
\* priority; the server's catch-up transform and the client's receive-op
\* transform are the two sides of this identity
C26_Diamond ==
  /\ [](DiamondOfInputs /\ DiamondOfServer)
  /\ [][DiamondOfClient]_vars

\* a change with an insert has been committed after a missed op with an
\* insert, and the transform has moved it
C26_Witness ==
  \E h \in H :
    /\ Committed(h)
    /\ Len(handlers[h].missedOps) = 1
    /\ \E i \in DOMAIN handlers[h].clientDelta : IsInsert(handlers[h].clientDelta[i])
    /\ \E i \in DOMAIN handlers[h].missedOps[1].delta :
         IsInsert(handlers[h].missedOps[1].delta[i])
    /\ handlers[h].transformedDelta # handlers[h].clientDelta

\* ------------------------------------------------------------------------
\* C27
\* ------------------------------------------------------------------------

\* C27: a send-op whose baseVersion is not an integer (missing, negative or
\* non-numeric) is rejected with op-error to the sender and commits nothing
C27_MalformedRejected ==
  \A h \in H :
    (handlers[h].kind = "send" /\ handlers[h].clientVersion \in MalformedBases) =>
      /\ ~Committed(h)
      /\ handlers[h].pc # "emit"

\* ------------------------------------------------------------------------
\* C28
\* ------------------------------------------------------------------------

\* the call commits in its first attempt, untransformed, as baseVersion + 1
FirstAttemptCommit ==
  \A h \in H :
    LET hd == handlers[h]
    IN  /\ hd.attempt <= 1
        /\ hd.pc \notin {"fetch", "error"}
        /\ hd.pc \in {"log", "emit", "release"} =>
             /\ hd.transformedDelta = hd.clientDelta
             /\ hd.newVersion = hd.clientVersion + 1
             /\ doc.version = hd.clientVersion + 1
             /\ doc.content = compose(hd.currentContent, hd.clientDelta)

\* the handler's emits: op-ack(baseVersion + 1) to the sender, receive-op to
\* the other subscribers only
AckOnly ==
  \A h \in H :
    (handlers[h].pc = "emit" /\ h \in DOMAIN handlers'
       /\ handlers'[h].pc = "release") =>
      LET hd == handlers[h]
      IN  /\ s2c'[hd.conn] =
               Append(s2c[hd.conn],
                      Msg("op-ack", <<>>, hd.clientVersion + 1, <<>>))
          /\ \A c \in Conns \ {hd.conn} :
               IF c \in rooms[hd.docId]
               THEN s2c'[c] = Append(s2c[c],
                                Msg("receive-op", hd.clientDelta,
                                    hd.clientVersion + 1, <<>>))
               ELSE s2c'[c] = s2c[c]

\* C28: a send-op with baseVersion equal to the document's current version
\* and no concurrent writer commits on the first attempt: the delta is
\* applied untransformed, the version becomes baseVersion + 1, the sender
\* receives op-ack(baseVersion + 1), and with no other subscriber nobody
\* receives a receive-op
C28_FirstAttempt ==
  /\ []FirstAttemptCommit
  /\ [][AckOnly]_vars

\* the only subscriber's op has been committed and acknowledged and no
\* connection holds a receive-op
C28_Witness ==
  \E h \in H :
    /\ handlers[h].pc = "release"
    /\ rooms[TheDoc] = {handlers[h].conn}
    /\ doc.version = handlers[h].clientVersion + 1
    /\ s2c[handlers[h].conn] # <<>>
    /\ s2c[handlers[h].conn][Len(s2c[handlers[h].conn])] =
         Msg("op-ack", <<>>, doc.version, <<>>)
    /\ \A c \in Conns : \A i \in DOMAIN s2c[c] : s2c[c][i].type # "receive-op"

\* ------------------------------------------------------------------------
\* C29
\* ------------------------------------------------------------------------

\* the snapshot is the committed deltas composed in version order
SnapshotOfCommitted == doc.content = ServerContentAt(doc.version)

\* a call that has returned has its transformed delta in the log under its
\* version
LogOfTransformed ==
  \A h \in H :
    Returned(h) =>
      \E e \in LogOf(handlers[h].docId) :
        /\ e.version = handlers[h].newVersion
        /\ e.delta = handlers[h].transformedDelta

\* every receive-op carries the delta of the log entry with its version
ReceiveOpOfLog ==
  \A c \in Conns : \A i \in DOMAIN s2c[c] :
    s2c[c][i].type = "receive-op" =>
      \E e \in LogOf(TheDoc) :
        /\ e.version = s2c[c][i].version
        /\ e.delta = s2c[c][i].delta
        /\ e.delta = CommittedDeltaAt(e.version)

\* C29: for every committed version n the delta carried by receive-op(n),
\* the delta stored in the log entry with version n and the delta composed
\* into the snapshot are the same transformed delta, never the client's
\* pre-transform submission
C29_SameTransformedDelta ==
  SnapshotOfCommitted /\ LogOfTransformed /\ ReceiveOpOfLog

\* an op that the transform changed has been committed, logged and broadcast
C29_Witness ==
  \E h \in H :
    /\ Returned(h)
    /\ handlers[h].pc = "release"
    /\ handlers[h].transformedDelta # handlers[h].clientDelta
    /\ \E c \in Conns : \E i \in DOMAIN s2c[c] :
         /\ s2c[c][i].type = "receive-op"
         /\ s2c[c][i].version = handlers[h].newVersion
         /\ s2c[c][i].delta = handlers[h].transformedDelta

\* ------------------------------------------------------------------------
\* C30
\* ------------------------------------------------------------------------

\* the call's version is committed and its entry is in the log
CommittedAndLogged(h) ==
  /\ Committed(h)
  /\ handlers[h].pc # "log"
  /\ \E e \in LogOf(handlers[h].docId) :
       /\ e.version = handlers[h].newVersion
       /\ e.delta = handlers[h].transformedDelta

\* C30: when the log append after a successful commit reports a duplicate
\* (docId, version), applyOperation treats it as success: it returns the
\* transformed delta and new version, and the sender receives op-ack rather
\* than op-error
C30_DuplicateIsSuccess ==
  /\ \A h \in H : CommittedAndLogged(h) => handlers[h].pc \in {"emit", "release"}
  /\ \A c \in Conns : \A i \in DOMAIN s2c[c] : s2c[c][i].type # "op-error"

\* ------------------------------------------------------------------------
\* C31
\* ------------------------------------------------------------------------

\* the step in which handler h completes
Completes(h) == h \in H /\ h \notin DOMAIN handlers'

\* C31: every send-op handler that acquired the lock releases it before it
\* finishes, on the success path and on every error path: after the handler
\* completes the key does not hold its owner token, and no key holds the
\* token of a handler that is not running
C31_LockReleased ==
  /\ [][\A h \in H :
          (Completes(h) /\ handlers[h].lockAcquired) =>
            /\ handlers[h].pc = "release"
            /\ lock'[handlers[h].docId] # handlers[h].lockOwner]_vars
  /\ [](\A id \in DocIds :
          lock[id] # None => \E h \in H : handlers[h].lockOwner = lock[id])

\* a handler that holds the key is about to finish after its applyOperation
\* call failed and op-error was sent
C31_Witness ==
  \E h \in H :
    /\ handlers[h].pc = "release"
    /\ handlers[h].lockAcquired
    /\ lock[handlers[h].docId] = handlers[h].lockOwner
    /\ ~Committed(h)
    /\ \E i \in DOMAIN s2c[handlers[h].conn] :
         s2c[handlers[h].conn][i].type = "op-error"

\* ------------------------------------------------------------------------
\* C32
\* ------------------------------------------------------------------------

\* the step is client c handling a receive-op while its inFlightOp is set
RemoteOpOverLocal(c) ==
  /\ NextMsg(c, "receive-op")
  /\ s2c'[c] = Tail(s2c[c])
  /\ inFlightOp[c] # None

\* a local op rewritten against the remote delta as received
AgainstReceived(rawDelta, local) ==
  IF local = None THEN None
  ELSE Some(DeltaTransform(rawDelta, local[1], FALSE))

\* C32: on receive-op(delta, version) while inFlightOp is set the client
\* applies to its view the remote delta transformed over inFlightOp composed
\* with pendingOp, replaces inFlightOp and pendingOp by their transforms
\* against the remote delta as received, and sets knownVersion = version
C32_ReceiveOpTransforms ==
  [][\A c \in Conns :
       RemoteOpOverLocal(c) =>
         LET m == Head(s2c[c])
         IN  /\ view'[c] = updateContents(view[c],
                  remoteOverLocal(inFlightOp[c], pendingOp[c], m.delta))
             /\ inFlightOp'[c] = AgainstReceived(m.delta, inFlightOp[c])
             /\ pendingOp'[c] = AgainstReceived(m.delta, pendingOp[c])
             /\ knownVersion'[c] = m.version]_vars

\* ------------------------------------------------------------------------
\* C33
\* ------------------------------------------------------------------------

\* the step is client c handling a message of the given type
Handles(c, type) ==
  /\ NextMsg(c, type)
  /\ s2c'[c] = Tail(s2c[c])

\* C33: on doc-snapshot(content, version) the client replaces its view by
\* content, sets knownVersion = version and clears both inFlightOp and
\* pendingOp, so that the next local edit is sent immediately
C33_SnapshotResets ==
  [][\A c \in Conns :
       Handles(c, "doc-snapshot") =>
         LET m == Head(s2c[c])
         IN  /\ view'[c] = setContents(m.delta)
             /\ knownVersion'[c] = m.version
             /\ inFlightOp'[c] = None
             /\ pendingOp'[c] = None]_vars

\* ------------------------------------------------------------------------
\* C34
\* ------------------------------------------------------------------------

\* the client state one receive-op handler leaves behind
AsReceiveOp(st, rawDelta) ==
  LET remoteDelta == remoteOverLocal(st.inFlightOp, st.pendingOp, rawDelta)
  IN  [view       |-> updateContents(st.view, remoteDelta),
       inFlightOp |-> localOverRemote(remoteDelta, st.inFlightOp),
       pendingOp  |-> localOverRemote(remoteDelta, st.pendingOp)]

RECURSIVE AsReceiveOps(_, _)
\* the replayed ops handled one after the other as receive-ops
AsReceiveOps(st, ops) ==
  IF ops = <<>> THEN st
  ELSE AsReceiveOps(AsReceiveOp(st, Head(ops).delta), Tail(ops))

\* C34: a catchup-ops reply handled while inFlightOp or pendingOp is set
\* handles each replayed op like a receive-op, transforming it over the
\* local ops and the local ops against it; the replayed deltas are not
\* applied to the view untransformed
C34_CatchupTransforms ==
  [][\A c \in Conns :
       (Handles(c, "catchup-ops") /\ inFlightOp[c] # None) =>
         LET st == AsReceiveOps([view       |-> view[c],
                                 inFlightOp |-> inFlightOp[c],
                                 pendingOp  |-> pendingOp[c]],
                                Head(s2c[c]).ops)
         IN  /\ view'[c] = st.view
             /\ inFlightOp'[c] = st.inFlightOp
             /\ pendingOp'[c] = st.pendingOp]_vars

\* ------------------------------------------------------------------------
\* C35
\* ------------------------------------------------------------------------

\* C35: pendingOp is set only while inFlightOp is set, whatever sequence of
\* local edits, op-ack, op-error, receive-op, doc-snapshot and catchup-ops
\* the client has handled
C35_PendingImpliesInFlight ==
  \A c \in Conns : pendingOp[c] # None => inFlightOp[c] # None

\* a buffered edit at a client whose version has advanced and one of whose
\* send-ops has failed
C35_Witness ==
  \E c \in Conns :
    /\ pendingOp[c] # None
    /\ inFlightOp[c] # None
    /\ knownVersion[c] > 0
    /\ \E h \in H : handlers[h].kind = "send" /\ handlers[h].conn = c
                    /\ handlers[h].pc = "release" /\ handlers[h].newVersion = 0

\* ------------------------------------------------------------------------
\* C36
\* ------------------------------------------------------------------------

\* the number of op-ack and op-error messages emitted to connection c
Replies(c) ==
  Cardinality({i \in DOMAIN s2c[c] : s2c[c][i].type \in {"op-ack", "op-error"}})

\* the send-op handlers of connection c that leave the try/catch in this step
Replying(c) ==
  {h \in H : /\ handlers[h].kind = "send" /\ handlers[h].conn = c
             /\ handlers[h].pc # "release"
             /\ h \in DOMAIN handlers' /\ handlers'[h].pc = "release"}

\* C36: every send-op receives exactly one reply, op-ack or op-error, never
\* both and never none, whatever the outcome of the lock acquisition, of
\* applyOperation and of the lock release: a reply is emitted exactly when a
\* handler leaves its try/catch, a handler ends only after that, and every
\* handler ends
C36_ExactlyOneReply ==
  /\ [][\A c \in Conns :
          Replies(c)' = Replies(c) + Cardinality(Replying(c))]_vars
  /\ [][\A h \in H :
          /\ Completes(h) => handlers[h].pc = "release"
          /\ (handlers[h].pc = "release" /\ h \in DOMAIN handlers') =>
               handlers'[h].pc = "release"]_vars
  /\ <>[](handlers = <<>> /\ Cardinality(Answers) = nInputs)

\* all requests are answered, one of them with op-ack and one with op-error,
\* and a key is left behind by a release that failed
C36_Witness ==
  /\ handlers = <<>>
  /\ nInputs = MaxReq
  /\ Cardinality(Answers) = MaxReq
  /\ \E c \in Conns : \E i \in DOMAIN s2c[c] : s2c[c][i].type = "op-ack"
  /\ \E c \in Conns : \E i \in DOMAIN s2c[c] : s2c[c][i].type = "op-error"
  /\ lock[TheDoc] # None

\* ------------------------------------------------------------------------
\* C37
\* ------------------------------------------------------------------------

\* version v has been acknowledged to its sender
Acked(v) ==
  \E c \in Conns : \E i \in DOMAIN s2c[c] :
    s2c[c][i].type = "op-ack" /\ s2c[c][i].version = v

\* C37: a send-op that is answered with op-error has not changed the
\* document, neither content nor version nor log; equivalently, once the
\* handlers have finished every committed version has been acknowledged
C37_ErrorMeansUnchanged ==
  /\ \A h \in H :
       (handlers[h].kind = "send" /\ handlers[h].pc = "error") =>
         /\ ~Committed(h)
         /\ \A e \in LogOf(handlers[h].docId) :
              e.version # handlers[h].newVersion
  /\ handlers = <<>> => \A v \in 1..doc.version : Acked(v)

\* ------------------------------------------------------------------------
\* C38
\* ------------------------------------------------------------------------

JoinReplies == {"doc-snapshot", "catchup-ops"}

\* C38: a join is consistent with the commits that run beside it: among the
\* messages emitted to a connection, the receive-ops that follow a join reply
\* are exactly those with a version greater than the reply's version, and no
\* receive-op with such a version is emitted ahead of the reply
C38_JoinConsistent ==
  \A c \in Conns : \A i, j \in DOMAIN s2c[c] :
    (s2c[c][i].type \in JoinReplies /\ s2c[c][j].type = "receive-op") =>
      (j > i <=> s2c[c][j].version > s2c[c][i].version)

\* ------------------------------------------------------------------------
\* C39
\* ------------------------------------------------------------------------

\* the editor contents after the outstanding local ops are applied to v
WithLocalOps(v, inFlight, pending) ==
  LET a == IF inFlight = None THEN v ELSE updateContents(v, inFlight[1])
  IN  IF pending = None THEN a ELSE updateContents(a, pending[1])

\* C39: after any sequence of local edits, op-ack and receive-op messages
\* delivered in the order the server emitted them, a client's view equals the
\* server's content at the client's knownVersion with inFlightOp and then
\* pendingOp applied to it
C39_ViewInvariant ==
  \A c \in Conns :
    view[c] = WithLocalOps(setContents(ServerContentAt(knownVersion[c])),
                           inFlightOp[c], pendingOp[c])

\* ------------------------------------------------------------------------
\* C40
\* ------------------------------------------------------------------------

\* the number of characters delta d inserts
Inserted(d) == Cardinality({i \in DOMAIN d : IsInsert(d[i])})

\* C40: provided every send-op is answered and every message is delivered,
\* every local edit is eventually sent or discarded by the reset on op-error:
\* no edit stays in pendingOp for ever, and an op in flight is one whose
\* send-op is being handled or whose reply is on its way
C40_Progress ==
  /\ \A c \in Conns : (pendingOp[c] # None) ~> (pendingOp[c] = None)
  /\ [](\A c \in Conns :
          inFlightOp[c] # None =>
            \/ \E h \in H : handlers[h].kind = "send" /\ handlers[h].conn = c
                            /\ handlers[h].pc # "release"
            \/ \E i \in DOMAIN s2c[c] : s2c[c][i].type \in {"op-ack", "op-error"})

\* two edits were buffered behind an op in flight and, once that op was
\* acknowledged, sent as one op
C40_Witness ==
  \E c \in Conns :
    /\ pendingOp[c] = None
    /\ inFlightOp[c] # None
    /\ Inserted(inFlightOp[c][1]) >= 2
    /\ \E h \in H : /\ handlers[h].kind = "send" /\ handlers[h].conn = c
                    /\ handlers[h].clientDelta = inFlightOp[c][1]

====
